---------------------------- MODULE Spec2Model ----------------------------
(***************************************************************************)
(* Stars: device-orientation sensor fusion, calibration, smoothing and     *)
(* alignment guidance (SensorManager in src/src/sensor.js and in the       *)
(* application file src/unnamed/part_002, and the application's handlers). *)
(*                                                                         *)
(* Numbers.  Every angle is an exact rational number of degrees, held as   *)
(* an integer count of 1/Unit degree, Unit = 20^MaxSamples.  The smoothing *)
(* step multiplies by 3/20 (0.15 = 1 - 0.85), so after at most MaxSamples  *)
(* smoothing steps every value is still an integer count: the arithmetic   *)
(* of the model is the code's arithmetic without rounding.  The JavaScript *)
(* values NaN, null and undefined are three integers outside the range of  *)
(* every angle; the operators below treat them as JavaScript does.         *)
(*                                                                         *)
(* Rounding.  The code computes in doubles, and 1 - 0.85 in sensor.js is   *)
(* the double 0.15000000000000002: a value a handler has computed lies     *)
(* within rounding of the exact value the model holds, on either side.     *)
(* That shows where the code compares such a value with a constant and the *)
(* exact values are equal: diff > 180 and diff < -180 of the wrapping      *)
(* loops, the tolerances of the guidance, and toFixed(1) at a midpoint.    *)
(* There the model takes both outcomes (WrapRounded, Below, FormatDeg);    *)
(* only before the first event, when heading and pitch are still the 0 of  *)
(* the constructor, it takes that of the exact value alone.  What the      *)
(* smoothing step of sensor.js returns in doubles for a sample equal to    *)
(* the state is computed digit by digit, on a variable of its own          *)
(* (smoothAngleAtRest, pitchAtRest).                                       *)
(***************************************************************************)
EXTENDS Integers, Sequences, FiniteSets, TLC

\* ------------------------------------------------------------ bounds ----
\* at most MaxSamples orientation events are dispatched in a behaviour
MaxSamples == 3
\* at most MaxCalibrations calibration actions are invoked in a behaviour
MaxCalibrations == 2
\* at most MaxStartClicks clicks on the start button in a behaviour
MaxStartClicks == 2

Unit == 20 ^ MaxSamples
Deg(n) == n * Unit

\* ------------------------------------------- JavaScript number values ----
NaN == 2147483647
Null == 2147483646
Undef == 2147483645

\* ToNumber: null -> 0, undefined -> NaN
ToNumber(v) == IF v = Null THEN 0 ELSE IF v = Undef THEN NaN ELSE v
\* truthiness of a number-or-missing value: 0, NaN, null, undefined are falsy
Truthy(v) == v \notin {0, NaN, Null, Undef}

Add(a, b) == IF ToNumber(a) = NaN \/ ToNumber(b) = NaN THEN NaN
             ELSE ToNumber(a) + ToNumber(b)
Sub(a, b) == IF ToNumber(a) = NaN \/ ToNumber(b) = NaN THEN NaN
             ELSE ToNumber(a) - ToNumber(b)
Neg(a) == IF a = NaN THEN NaN ELSE 0 - a
Abs(a) == IF a = NaN THEN NaN ELSE IF a < 0 THEN 0 - a ELSE a
\* a < b, a > b in JavaScript: false when either side is NaN
Lt(a, b) == a # NaN /\ b # NaN /\ a < b
Gt(a, b) == a # NaN /\ b # NaN /\ a > b

\* a % 360 in JavaScript: the remainder keeps the sign of the dividend
Mod360(a) ==
    IF a = NaN THEN NaN
    ELSE IF a >= 0 THEN a % Deg(360)
    ELSE 0 - ((0 - a) % Deg(360))

\* x * 0.15 (and x * (1 - 0.85)): 3/20 of x, which is a whole count of units
\* wherever an event computes it (ExactSmoothing); the double of the code
\* lies within rounding of this value, x * (1 - 0.85) beyond it for x # 0
\* (212.5 gives 31.875000000000004), and the comparisons that can tell the
\* two apart take both outcomes (see Rounding above)
SmoothNum == 3
SmoothDen == 20
\* variant of TimesAlpha: the smoothed state does not follow the sample
TimesNothing(x) == IF x = NaN THEN NaN ELSE 0
TimesAlpha(x) == IF x = NaN THEN NaN ELSE (x * SmoothNum) \div SmoothDen
\* x * 0.85: 17/20 of x, a whole count of units wherever an event computes it
KeepNum == 17
\* variant of TimesSmoothing: 0.8 in place of 0.85
TimesSmoothingLow(x) == IF x = NaN THEN NaN ELSE (x * (KeepNum - 1)) \div SmoothDen
TimesSmoothing(x) == IF x = NaN THEN NaN ELSE (x * KeepNum) \div SmoothDen


\* ------------------------------------------------ persistent storage ----
\* A stored string is held as the number parseFloat reads from it; the empty
\* string and a string with no numeric prefix are two further values.  An
\* absent key reads as null.  setItem(key, x) stores String(x), and
\* parseFloat(String(x)) is x for every number (NaN included).
StrEmpty == 2147483644
StrGarbage == 2147483643

ParseFloat(s) == IF s \in {StrEmpty, StrGarbage, NaN} THEN NaN ELSE s
\* v || '0'
OrZero(v) == IF v = Null \/ v = StrEmpty THEN 0 ELSE v
\* parseFloat(localStorage.getItem(key) || '0')
LoadOffset(v) == ParseFloat(OrZero(v))
\* variant of ToStored: the value is stored as a whole number of degrees
ToStoredWhole(x) == IF x = NaN THEN NaN ELSE (x \div Unit) * Unit

\* localStorage.setItem(key, x): String(x), held as the number it parses to
ToStored(x) == x

\* ----------------------------------------------------- angle wrapping ----
HalfTurn == 180
FullTurn == 360

RECURSIVE WrapUpLate(_)
\* variant of WrapUp: the first loop tests against -360 instead of -180
WrapUpLate(d) == IF Lt(d, Deg(0 - FullTurn)) THEN WrapUpLate(d + Deg(FullTurn)) ELSE d

RECURSIVE WrapUp(_)
\* while (diff < -180) diff += 360;
WrapUp(d) == IF Lt(d, Deg(0 - HalfTurn)) THEN WrapUp(d + Deg(FullTurn)) ELSE d

\* variant of WrapDown: an if in place of the while
WrapDownOnce(d) == IF Gt(d, Deg(HalfTurn)) THEN d - Deg(FullTurn) ELSE d

RECURSIVE WrapDown(_)
\* while (diff > 180) diff -= 360;
WrapDown(d) == IF Gt(d, Deg(HalfTurn)) THEN WrapDown(d - Deg(FullTurn)) ELSE d

\* variant of Wrap180: the difference is used as it is
WrapNone(d) == d

\* the two loops, in the code's order
Wrap180(d) == WrapDown(WrapUp(d))

\* the two loops on the double of d, d being a difference of two angles of
\* [0,360) of which one was computed: at exactly 180 or -180 the double lies
\* at or inside the bound and the difference stays (asExact), or beyond it
\* and the difference comes out of the loop at the other end
WrapRounded(d, asExact) ==
    IF d # NaN /\ Abs(d) = Deg(HalfTurn) /\ ~asExact THEN Neg(d) ELSE Wrap180(d)

\* x < bound on the double of x: when the exact values are equal the double
\* lies at the bound (asExact) or below it
Below(x, bound, asExact) == Lt(x, bound) \/ (x # NaN /\ x = bound /\ ~asExact)

\* ------------------------------------------------------ SensorManager ----
\* event: [alpha, beta, gamma, compass]; compass is webkitCompassHeading
\* manager: [heading, pitch, calibrationOffset, pitchOffset, listening, perm,
\*           granted] and, in sensor.js, [alpha, beta, gamma, smoothing] (the
\*           angles of the last event and the factor 0.85), in part_002
\*           [alpha] (the factor 0.15)

Upright == 90

\* new SensorManager(onUpdate) of revision r, offsets read from storage st
NewManager(r, st) ==
    IF r = "sensor"
    THEN [heading |-> 0, pitch |-> 0,
          calibrationOffset |-> LoadOffset(st.north),
          pitchOffset |-> LoadOffset(st.pitch),
          alpha |-> 0, beta |-> 0, gamma |-> 0,
          smoothing |-> TimesSmoothing(Deg(1)),
          listening |-> FALSE, perm |-> "none", granted |-> "unresolved"]
    ELSE [heading |-> 0, pitch |-> 0,
          calibrationOffset |-> LoadOffset(st.north),
          pitchOffset |-> LoadOffset(st.pitch),
          alpha |-> TimesAlpha(Deg(1)),
          listening |-> FALSE, perm |-> "none", granted |-> "unresolved"]

\* rawHeading / heading before the offset is applied (both revisions)
RawHeading(ev) ==
    LET h == IF Truthy(ev.compass) THEN ev.compass
             ELSE Sub(Deg(FullTurn), ev.alpha)
    IN Mod360(Add(h, Deg(FullTurn)))

\* (rawHeading + this.calibrationOffset + 360) % 360
CalibratedHeading(raw, offset) == Mod360(Add(Add(raw, offset), Deg(FullTurn)))

\* beta - 90 + this.pitchOffset
CalibratedPitch(beta, offset) == Add(Sub(beta, Deg(Upright)), offset)

\* variant of smoothAngle: the result is not brought back into [0,360)
smoothAngleUnnormalized(current, target, asExact) ==
    LET diff == WrapRounded(Sub(target, current), asExact)
    IN Add(current, TimesAlpha(diff))

\* sensor.js smoothAngle(current, target)
smoothAngle(current, target, asExact) ==
    LET diff == WrapRounded(Sub(target, current), asExact)
    IN Mod360(Add(Add(current, TimesAlpha(diff)), Deg(FullTurn)))

\* The smoothing step of sensor.js for a sample equal to the state, in the
\* doubles of the code.  A double near a whole number of degrees is held as
\* [whole, low]: whole + low / 2^48 degrees, with whole from 16 on and low
\* up to MaxLow.  From 16 up to 32 these are all the doubles, and the
\* doubles from 32 on are 2, 4, 8, 16 and 32 of these steps apart.
MaxLow == 48
\* the distance between neighbouring doubles at x, in steps of 2^-48
Spacing(x) ==
    IF x < 32 THEN 1 ELSE IF x < 64 THEN 2 ELSE IF x < 128 THEN 4
    ELSE IF x < 256 THEN 8 ELSE IF x < 512 THEN 16 ELSE 32
IsDouble(d) == d.low % Spacing(d.whole) = 0
Zero == [whole |-> 0, low |-> 0]

\* variant of Plus360: the sum is cut off at the spacing, not rounded
Plus360Cut(d) ==
    LET g == Spacing(d.whole + FullTurn)
    IN [whole |-> d.whole + FullTurn, low |-> (d.low \div g) * g]

\* x + 360: the double nearest to the sum, of two equally near ones the
\* even one (the whole part is an even count of the spacing)
Plus360(d) ==
    LET g == Spacing(d.whole + FullTurn)
        q == d.low \div g
        r == d.low % g
        up == 2 * r > g \/ (2 * r = g /\ q % 2 = 1)
    IN [whole |-> d.whole + FullTurn, low |-> (IF up THEN q + 1 ELSE q) * g]

\* x % 360 for x from 360 up to 720: no rounding
Rem360(d) == [whole |-> d.whole - FullTurn, low |-> d.low]

\* sensor.js smoothAngle(current, current): diff is 0 and neither loop runs,
\* 0 * (1 - this.smoothing) is 0, current + 0 is current
smoothAngleAtRest(current) == Rem360(Plus360(current))

\* The products of the pitch are longer than an integer of the model: such
\* a number is the sequence of its digits to the base Limb, the lowest first.
Limb == 4096
LimbBits == 12

RECURSIVE Number(_)
Number(a) == IF a = <<>> THEN 0 ELSE Head(a) + Limb * Number(Tail(a))

RECURSIVE AddLimbs(_, _, _)
\* a + b + carry
AddLimbs(a, b, carry) ==
    IF a = <<>> /\ b = <<>> THEN (IF carry = 0 THEN <<>> ELSE <<carry>>)
    ELSE LET x == IF a = <<>> THEN 0 ELSE Head(a)
             y == IF b = <<>> THEN 0 ELSE Head(b)
             t == x + y + carry
         IN <<t % Limb>> \o AddLimbs(IF a = <<>> THEN a ELSE Tail(a),
                                     IF b = <<>> THEN b ELSE Tail(b), t \div Limb)

RECURSIVE SubLimbs(_, _, _)
\* a - b - borrow, for a not less than b
SubLimbs(a, b, borrow) ==
    IF a = <<>> THEN <<>>
    ELSE LET y == IF b = <<>> THEN 0 ELSE Head(b)
             t == Head(a) - y - borrow
         IN <<t % Limb>> \o SubLimbs(Tail(a), IF b = <<>> THEN b ELSE Tail(b),
                                     IF t < 0 THEN 1 ELSE 0)

RECURSIVE ScaleLimbs(_, _, _)
\* a * k + carry, for a digit k
ScaleLimbs(a, k, carry) ==
    IF a = <<>> THEN (IF carry = 0 THEN <<>> ELSE <<carry>>)
    ELSE LET t == Head(a) * k + carry
         IN <<t % Limb>> \o ScaleLimbs(Tail(a), k, t \div Limb)

RECURSIVE MulLimbs(_, _)
\* a * b
MulLimbs(a, b) ==
    IF b = <<>> THEN <<>>
    ELSE AddLimbs(ScaleLimbs(a, Head(b), 0), <<0>> \o MulLimbs(a, Tail(b)), 0)

\* the binary digits a double holds
Mantissa == 53
RECURSIVE Width(_)
\* the binary digits of x, a digit to the base Limb
Width(x) == IF x = 0 THEN 0 ELSE 1 + Width(x \div 2)
\* the binary digits of a
Significant(a) ==
    IF \A i \in 1..Len(a) : a[i] = 0 THEN 0
    ELSE LET n == CHOOSE i \in 1..Len(a) :
                     a[i] # 0 /\ \A j \in (i + 1)..Len(a) : a[j] = 0
         IN LimbBits * (n - 1) + Width(a[n])

\* the double nearest to a, in the steps of a: the Mantissa highest binary
\* digits are kept, and one is added to the number they make when the
\* digits dropped are more than half of one, or half and the number is odd
RoundDouble(a) ==
    LET d == Significant(a) - Mantissa
        q == d \div LimbBits
        r == d % LimbBits
    IN IF d <= 0 THEN a
       ELSE LET x == a[q + 1]
                m == 2 ^ r
                half == IF r > 0 THEN (x \div (m \div 2)) % 2
                        ELSE a[q] \div (Limb \div 2)
                more == \/ \E i \in 1..(IF r > 0 THEN q ELSE q - 1) : a[i] # 0
                        \/ IF r > 0 THEN x % (m \div 2) # 0
                           ELSE a[q] % (Limb \div 2) # 0
                odd == (x \div m) % 2 = 1
                up == half = 1 /\ (more \/ odd)
                kept == <<x - (x % m)>> \o SubSeq(a, q + 2, Len(a))
            IN [i \in 1..q |-> 0]
                  \o (IF up THEN AddLimbs(kept, <<m>>, 0) ELSE kept)

\* this.smoothing = 0.85: the double 0x1B333333333333 / 2^53, in steps of
\* 2^-60 (0xD99 999 999 999 980)
Smoothing == <<2432, 2457, 2457, 2457, 3481>>
\* 1 - this.smoothing: the difference is a double, 0.15000000000000002
OneMinusSmoothing == RoundDouble(SubLimbs(<<0, 0, 0, 0, 0, 1>>, Smoothing, 0))

\* sensor.js: (this.pitch * this.smoothing) + (rawPitch * (1 - this.smoothing))
\* with rawPitch equal to this.pitch: the pitch p in steps of 2^-48, the
\* products and the sum in steps of 2^-108
pitchAtRest(p) ==
    LET pitch == <<p.low, 0, 0, 0, p.whole>>
        kept == RoundDouble(MulLimbs(pitch, Smoothing))
        new == RoundDouble(MulLimbs(pitch, OneMinusSmoothing))
        sum == RoundDouble(AddLimbs(kept, new, 0))
    IN [whole |-> Number(SubSeq(sum, 10, Len(sum))),
        low |-> Number(SubSeq(sum, 6, 9))]

\* sensor.js: the null check that drops an event
Dropped(ev) == ev.alpha = Null \/ ev.beta = Null \/ ev.gamma = Null

\* sensor.js handleOrientation: the manager after an accepted event
SensorHandle(m, ev, asExact) ==
    LET calibratedHeading == CalibratedHeading(RawHeading(ev), m.calibrationOffset)
        rawPitch == CalibratedPitch(ev.beta, m.pitchOffset)
    IN [m EXCEPT !.heading = smoothAngle(m.heading, calibratedHeading, asExact),
                 !.pitch = Add(TimesSmoothing(m.pitch), TimesAlpha(rawPitch)),
                 !.alpha = ev.alpha, !.beta = ev.beta, !.gamma = ev.gamma]

\* part_002 handleOrientation: the manager after the event (no null check)
AppHandle(m, ev, asExact) ==
    LET heading == CalibratedHeading(RawHeading(ev), m.calibrationOffset)
        pitch == CalibratedPitch(ev.beta, m.pitchOffset)
        diff == WrapRounded(Sub(heading, m.heading), asExact)
    IN [m EXCEPT !.heading = Mod360(Add(Add(m.heading, TimesAlpha(diff)), Deg(FullTurn))),
                 !.pitch = Add(m.pitch, TimesAlpha(Sub(pitch, m.pitch)))]

\* variant of setCalibration: the old offset is not taken out of the heading
setCalibrationKeepsOld(m) == Neg(Mod360(Add(m.heading, Deg(FullTurn))))

\* sensor.js setCalibration: the new heading offset
setCalibration(m) ==
    LET currentRaw == Mod360(Add(Sub(m.heading, m.calibrationOffset), Deg(FullTurn)))
    IN Neg(currentRaw)

\* sensor.js setPitchCalibration: the new pitch offset
setPitchCalibration(m) == Sub(m.pitchOffset, m.pitch)

\* part_002 calibrateCurrentAsNorth: the new heading offset
calibrateCurrentAsNorth(m) ==
    LET raw == Mod360(Add(Sub(m.heading, m.calibrationOffset), Deg(FullTurn)))
    IN Neg(raw)

\* variant of calibrateCurrentAsHorizon: the old offset is not taken out
calibrateCurrentAsHorizonKeepsOld(m) == Neg(m.pitch)

\* part_002 calibrateCurrentAsHorizon: the new pitch offset
calibrateCurrentAsHorizon(m) ==
    LET rawPitch == Sub(m.pitch, m.pitchOffset)
    IN Neg(rawPitch)


\* -------------------------------------------------------- application ----
VARIABLES
    rev,            \* which SensorManager class the start handler constructs:
                    \*   "sensor" (src/src/sensor.js) or "app" (part_002)
    store,          \* localStorage: [north, pitch]
    mgrs,           \* every SensorManager constructed so far, oldest first
    appState,       \* [lat, lon, targetBody, currentHeading, currentPitch, isLocked]
    screen,         \* the screen showScreen made visible
    ui,             \* the guidance elements updatePointerUI writes
    sky,            \* the snapshot the object list was last rendered from (0: never)
    geoPending,     \* getCurrentPosition requests whose callback has not run
    timers,         \* setInterval(updateObjectList) timers created
    evals,          \* the guidance evaluations run by the last handler, in order
    calls,          \* how many times the last handler invoked onUpdate
    lastOp,         \* the handler that ran last
    thrown,         \* the handler that ran last ended with an uncaught exception
    lastEvent,      \* the orientation event dispatched last
    nSamples, nCal, \* orientation events dispatched (0: the managers hold
                    \* the constructor's heading and pitch), calibrations
                    \* invoked
    wrapArg, wrapRes,                  \* input and result of the wrapping step
    atRest,         \* the smoothing step of sensor.js on a double current with
                    \* itself as the sample: [current, done, heading, pitch]
    muhurta,        \* the MuhurtaScreen: its fields and what it rendered
    browser         \* [vibrate: navigator.vibrate exists,
                    \*  listeners: the managers whose handleOrientation was
                    \*  added to window, in the order of addEventListener]

vars == <<rev, store, mgrs, appState, screen, ui, sky, geoPending, timers,
          evals, calls, lastOp, thrown, lastEvent, nSamples, nCal, wrapArg,
          wrapRes, atRest, muhurta, browser>>

\* the module-level variable sensorManager: the manager constructed last
sensorManager == Len(mgrs)

NoBody == [name |-> "", alt |-> 0, az |-> 0]
NoMsg == [dir |-> "", mag |-> 0]
NoEvent == [alpha |-> 0, beta |-> 0, gamma |-> 0, compass |-> Undef]

\* ALIGN tolerance and fine tolerance of updatePointerUI, in degrees
AlignTolerance == 6
FineTolerance == 2

\* formatDeg(x) = x.toFixed(1) for x >= 0, in tenths of a degree: the tenth
\* nearest to the double x.  Where the exact value lies midway between two
\* tenths, the double the code has computed lies on or beside the midpoint
\* and toFixed gives the upper tenth (up) or the lower one.
FormatDeg(x, up) ==
    IF x = NaN THEN NaN
    ELSE LET tenth == Unit \div 10
             q == x \div tenth
             r == x % tenth
         IN IF 2 * r > tenth \/ (2 * r = tenth /\ up) THEN q + 1 ELSE q

\* how the doubles of one handler run fall where the exact value is equal
\* to the constant it is compared with: wrap for the heading difference of
\* handleOrientation, turn for the azimuth delta and tilt for the altitude
\* delta of updatePointerUI; TRUE: as for the exact value
Ties == [turn : BOOLEAN, tilt : BOOLEAN, wrap : BOOLEAN]
Exact == [turn |-> TRUE, tilt |-> TRUE, wrap |-> TRUE]

\* a magnitude midway between two tenths: the two roundings differ on it
Midway(x) == x # NaN /\ 2 * (Abs(x) % (Unit \div 10)) = Unit \div 10
\* a delta at one of the two tolerances, a difference at half a turn
AtTolerance(x) == x # NaN /\ Abs(x) \in {Deg(FineTolerance), Deg(AlignTolerance)}
AtHalfTurn(x) == x # NaN /\ Abs(x) = Deg(HalfTurn)

\* the ways n handler runs can fall, as far as they can show: wrap either
\* way when a heading difference is at half a turn (halfTurn), and then
\* turn and tilt either way too, since the evaluations that follow are not
\* those of the exact values; otherwise turn, or tilt, either way when one
\* of the evaluations evs, made as for the exact values, has that delta
\* midway, at a tolerance or at half a turn; nothing depends on the rest
TiesOf(evs, n, halfTurn) ==
    LET az == \E k \in 1..Len(evs) :
                 \/ Midway(evs[k].azDiff) \/ AtTolerance(evs[k].azDiff)
                 \/ AtHalfTurn(evs[k].azDiff)
        alt == \E k \in 1..Len(evs) :
                  Midway(evs[k].altDiff) \/ AtTolerance(evs[k].altDiff)
        either(b) == IF b \/ halfTurn THEN BOOLEAN ELSE {TRUE}
    IN [1..n -> [turn : either(az), tilt : either(alt), wrap : either(FALSE)]]

\* the ephemeris oracle: what getCelestialPositions returns at two instants
BodyNames == {"Sun", "Moon"}
Sky ==
    << [n \in BodyNames |->
          IF n = "Sun" THEN [name |-> n, alt |-> Deg(2), az |-> Deg(358)]
                       ELSE [name |-> n, alt |-> Deg(40), az |-> Deg(120)]],
       [n \in BodyNames |->
          IF n = "Sun" THEN [name |-> n, alt |-> Deg(0 - 1), az |-> Deg(3)]
                       ELSE [name |-> n, alt |-> Deg(41), az |-> Deg(121)]] >>

\* variant of IsAligned: the comparisons are not strict
IsAlignedInclusive(azDiff, altDiff, t) ==
    /\ ~Gt(Abs(azDiff), Deg(AlignTolerance))
    /\ ~Gt(Abs(altDiff), Deg(AlignTolerance))

\* Math.abs(azDiff) < 6 && Math.abs(altDiff) < 6
IsAligned(azDiff, altDiff, t) ==
    /\ Below(Abs(azDiff), Deg(AlignTolerance), t.turn)
    /\ Below(Abs(altDiff), Deg(AlignTolerance), t.tilt)

\* the "just locked" branch is taken: the evaluation is aligned and the
\* lock flag was false
JustLocked(isAligned, isLocked) == isAligned /\ ~isLocked

\* navigator.vibrate(100) is called: in the "just locked" branch, if
\* navigator.vibrate exists
Vibrates(isAligned, isLocked, canVibrate) ==
    JustLocked(isAligned, isLocked) /\ canVibrate

\* variant of LockAfter: the else branch does not clear the flag
LockAfterSticky(isAligned, isLocked) == isAligned \/ isLocked

\* appState.isLocked after the if/else on isAligned
LockAfter(isAligned, isLocked) ==
    IF isAligned THEN (IF ~isLocked THEN TRUE ELSE isLocked) ELSE FALSE

\* variant of TurnGuidance: the two directions are exchanged
TurnGuidanceSwapped(azDiff, up) ==
    IF Below(Abs(azDiff), Deg(FineTolerance), up) THEN [dir |-> "OK", mag |-> 0]
    ELSE IF Gt(azDiff, 0) THEN [dir |-> "LEFT", mag |-> FormatDeg(azDiff, up)]
    ELSE [dir |-> "RIGHT", mag |-> FormatDeg(Abs(azDiff), up)]

\* turn-msg of the else branch: "Face: OK", "Turn RIGHT x" or "Turn LEFT x";
\* up: the double of the delta is not below its exact value in magnitude
TurnGuidance(azDiff, up) ==
    IF Below(Abs(azDiff), Deg(FineTolerance), up) THEN [dir |-> "OK", mag |-> 0]
    ELSE IF Gt(azDiff, 0) THEN [dir |-> "RIGHT", mag |-> FormatDeg(azDiff, up)]
    ELSE [dir |-> "LEFT", mag |-> FormatDeg(Abs(azDiff), up)]

\* tilt-msg of the else branch: "Tilt: OK", "Tilt UP x" or "Tilt DOWN x"
TiltGuidance(altDiff, up) ==
    IF Below(Abs(altDiff), Deg(FineTolerance), up) THEN [dir |-> "OK", mag |-> 0]
    ELSE IF Gt(altDiff, 0) THEN [dir |-> "UP", mag |-> FormatDeg(altDiff, up)]
    ELSE [dir |-> "DOWN", mag |-> FormatDeg(Abs(altDiff), up)]

\* variant of WarnHidden: the advisory is shown for targets above the horizon
WarnHiddenInverted(target) == Lt(target.alt, 0)

\* status-message is hidden unless target.alt < 0
WarnHidden(target) == ~Lt(target.alt, 0)

\* variant of NoGuidance: the guard never returns
NoGuidanceNever(a, scr) == FALSE

\* the guard of updatePointerUI: no target, or the pointer screen is hidden
NoGuidance(a, scr) == a.targetBody = NoBody \/ scr # "pointer"

\* g = [appState, ui, evals, calls, vibrate]: what the callback reads and
\* writes; t: how the doubles of this evaluation fall where the exact delta
\* is at a tolerance, at half a turn or midway between two tenths; the
\* evaluation is logged with its deltas (exact) and with t (rounding)
updatePointerUI(g, scr, t) ==
    IF NoGuidance(g.appState, scr) THEN g
    ELSE
      LET target == g.appState.targetBody
          azDiff == WrapRounded(Sub(target.az, g.appState.currentHeading), t.turn)
          altDiff == Sub(target.alt, g.appState.currentPitch)
          isAligned == IsAligned(azDiff, altDiff, t)
          justLocked == JustLocked(isAligned, g.appState.isLocked)
          turn == TurnGuidance(azDiff, t.turn)
          tilt == TiltGuidance(altDiff, t.tilt)
          aligned == [dir |-> "ALIGNED", mag |-> 0]
      IN [appState |-> [g.appState EXCEPT !.isLocked = LockAfter(isAligned, @)],
          ui |-> [g.ui EXCEPT
                    !.turnMsg = IF isAligned THEN aligned ELSE turn,
                    !.tiltMsg = IF isAligned THEN aligned ELSE tilt,
                    !.arrowHidden = isAligned,
                    !.lockHidden = ~isAligned,
                    !.arrowRot = IF isAligned THEN @ ELSE azDiff,
                    !.warnHidden = WarnHidden(target)],
          calls |-> g.calls,
          vibrate |-> g.vibrate,
          evals |-> Append(g.evals,
                      [wasLocked |-> g.appState.isLocked, isAligned |-> isAligned,
                       justLocked |-> justLocked,
                       vibrated |-> Vibrates(isAligned, g.appState.isLocked,
                                             g.vibrate),
                       azDiff |-> azDiff,
                       altDiff |-> altDiff, target |-> target,
                       heading |-> g.appState.currentHeading,
                       pitch |-> g.appState.currentPitch,
                       rounding |-> [turn |-> t.turn, tilt |-> t.tilt]])]

\* variant of onUpdate: the guidance runs before the new values are copied
onUpdateStale(g, scr, m, t) ==
    LET e == updatePointerUI([g EXCEPT !.calls = @ + 1], scr, t)
    IN [e EXCEPT !.appState.currentHeading = m.heading,
                 !.appState.currentPitch = m.pitch]

\* the onUpdate callback the start handler gives the SensorManager
onUpdate(g, scr, m, t) ==
    updatePointerUI([g EXCEPT !.appState.currentHeading = m.heading,
                              !.appState.currentPitch = m.pitch,
                              !.calls = @ + 1], scr, t)

\* one manager's handleOrientation: the manager after the event
Handle(r, m, ev, asExact) ==
    IF r = "sensor" THEN (IF Dropped(ev) THEN m ELSE SensorHandle(m, ev, asExact))
    ELSE AppHandle(m, ev, asExact)

\* does the manager's handler reach this.onUpdate for the event
CallsBack(r, ev) == r = "app" \/ ~Dropped(ev)

RECURSIVE Dispatch(_, _, _, _, _, _, _, _)
\* the event is delivered to the registered handlers ls in the order of
\* their registration; the result is [mgrs, g] after the handlers from
\* position k of ls on have run, ts[k] being the ties of the k-th evaluation
Dispatch(r, ms, g, scr, ev, ls, ts, k) ==
    IF k > Len(ls) THEN [mgrs |-> ms, g |-> g]
    ELSE LET i == ls[k]
             m2 == Handle(r, ms[i], ev, ts[k].wrap)
             g2 == IF CallsBack(r, ev) THEN onUpdate(g, scr, m2, ts[k]) ELSE g
         IN Dispatch(r, [ms EXCEPT ![i] = m2], g2, scr, ev, ls, ts, k + 1)


\* ----------------------------------------------------------- muhurta ----
\* Sunrise and sunset (suncalc.js).  A date is its day number counted from
\* 2026-06-10, an instant is minutes after 2026-06-10T00:00Z.  For a place
\* and a day the table holds what the trigonometry of getSunriseSunset
\* evaluates to: cosH of the first pass and cosH_new of the pass with the
\* longitude sign corrected, in units of 1/CosOne, and the sunrise, sunset
\* and solar noon of the corrected pass (NaN where Math.acos has no value).
CosOne == 100000
MuhurtaPlaces ==
    { [lat |-> 0, lon |-> 0], [lat |-> 23, lon |-> 86], [lat |-> 66, lon |-> 170] }
SunTable(lat, lng) ==
    IF lat = 66 /\ lng = 170 THEN
      << [cosH |-> (0 - 99528), cosH_new |-> (0 - 99201), rise |-> (0 - 650), set |-> 732, noon |-> 41],
         [cosH |-> (0 - 99843), cosH_new |-> (0 - 99546), rise |-> 783, set |-> 2179, noon |-> 1481],
         [cosH |-> (0 - 100128), cosH_new |-> (0 - 99860), rise |-> 2213, set |-> 3629, noon |-> 2921],
         [cosH |-> (0 - 100380), cosH_new |-> (0 - 100143), rise |-> NaN, set |-> NaN, noon |-> 4361],
         [cosH |-> (0 - 100601), cosH_new |-> (0 - 100393), rise |-> NaN, set |-> NaN, noon |-> 5801],
         [cosH |-> (0 - 100790), cosH_new |-> (0 - 100613), rise |-> NaN, set |-> NaN, noon |-> 7242],
         [cosH |-> (0 - 100947), cosH_new |-> (0 - 100800), rise |-> NaN, set |-> NaN, noon |-> 8682],
         [cosH |-> (0 - 101072), cosH_new |-> (0 - 100955), rise |-> NaN, set |-> NaN, noon |-> 10122],
         [cosH |-> (0 - 101165), cosH_new |-> (0 - 101078), rise |-> NaN, set |-> NaN, noon |-> 11562],
         [cosH |-> (0 - 101225), cosH_new |-> (0 - 101169), rise |-> NaN, set |-> NaN, noon |-> 13002],
         [cosH |-> (0 - 101253), cosH_new |-> (0 - 101227), rise |-> NaN, set |-> NaN, noon |-> 14443],
         [cosH |-> (0 - 101249), cosH_new |-> (0 - 101254), rise |-> NaN, set |-> NaN, noon |-> 15883],
         [cosH |-> (0 - 101212), cosH_new |-> (0 - 101248), rise |-> NaN, set |-> NaN, noon |-> 17323] >>
    ELSE IF lat = 23 /\ lng = 86 THEN
      << [cosH |-> (0 - 19777), cosH_new |-> (0 - 19746), rise |-> (0 - 29), set |-> 782, noon |-> 377],
         [cosH |-> (0 - 19839), cosH_new |-> (0 - 19810), rise |-> 1411, set |-> 2223, noon |-> 1817],
         [cosH |-> (0 - 19894), cosH_new |-> (0 - 19868), rise |-> 2851, set |-> 3663, noon |-> 3257],
         [cosH |-> (0 - 19944), cosH_new |-> (0 - 19921), rise |-> 4291, set |-> 5103, noon |-> 4697],
         [cosH |-> (0 - 19987), cosH_new |-> (0 - 19967), rise |-> 5731, set |-> 6544, noon |-> 6138],
         [cosH |-> (0 - 20025), cosH_new |-> (0 - 20008), rise |-> 7172, set |-> 7984, noon |-> 7578],
         [cosH |-> (0 - 20056), cosH_new |-> (0 - 20042), rise |-> 8612, set |-> 9424, noon |-> 9018],
         [cosH |-> (0 - 20081), cosH_new |-> (0 - 20070), rise |-> 10052, set |-> 10864, noon |-> 10458],
         [cosH |-> (0 - 20100), cosH_new |-> (0 - 20092), rise |-> 11492, set |-> 12305, noon |-> 11898],
         [cosH |-> (0 - 20113), cosH_new |-> (0 - 20108), rise |-> 12932, set |-> 13745, noon |-> 13339],
         [cosH |-> (0 - 20120), cosH_new |-> (0 - 20118), rise |-> 14372, set |-> 15185, noon |-> 14779],
         [cosH |-> (0 - 20121), cosH_new |-> (0 - 20121), rise |-> 15813, set |-> 16625, noon |-> 16219],
         [cosH |-> (0 - 20115), cosH_new |-> (0 - 20119), rise |-> 17253, set |-> 18066, noon |-> 17659] >>
    ELSE
      << [cosH |-> (0 - 1580), cosH_new |-> (0 - 1580), rise |-> 357, set |-> 1084, noon |-> 721],
         [cosH |-> (0 - 1581), cosH_new |-> (0 - 1581), rise |-> 1797, set |-> 2525, noon |-> 2161],
         [cosH |-> (0 - 1581), cosH_new |-> (0 - 1581), rise |-> 3238, set |-> 3965, noon |-> 3601],
         [cosH |-> (0 - 1582), cosH_new |-> (0 - 1582), rise |-> 4678, set |-> 5405, noon |-> 5041],
         [cosH |-> (0 - 1583), cosH_new |-> (0 - 1583), rise |-> 6118, set |-> 6845, noon |-> 6482],
         [cosH |-> (0 - 1583), cosH_new |-> (0 - 1583), rise |-> 7558, set |-> 8285, noon |-> 7922],
         [cosH |-> (0 - 1584), cosH_new |-> (0 - 1584), rise |-> 8998, set |-> 9726, noon |-> 9362],
         [cosH |-> (0 - 1584), cosH_new |-> (0 - 1584), rise |-> 10439, set |-> 11166, noon |-> 10802],
         [cosH |-> (0 - 1584), cosH_new |-> (0 - 1584), rise |-> 11879, set |-> 12606, noon |-> 12242],
         [cosH |-> (0 - 1584), cosH_new |-> (0 - 1584), rise |-> 13319, set |-> 14046, noon |-> 13683],
         [cosH |-> (0 - 1584), cosH_new |-> (0 - 1584), rise |-> 14759, set |-> 15486, noon |-> 15123],
         [cosH |-> (0 - 1585), cosH_new |-> (0 - 1585), rise |-> 16199, set |-> 16927, noon |-> 16563],
         [cosH |-> (0 - 1584), cosH_new |-> (0 - 1584), rise |-> 17640, set |-> 18367, noon |-> 18003] >>
SunAt(day, lat, lng) == SunTable(lat, lng)[day + 1]

\* cosH < -1 || cosH > 1
OutOfRange(c) == c < 0 - CosOne \/ c > CosOne

\* the null getSunriseSunset returns
NoTimes == [sunrise |-> NaN, sunset |-> NaN, solarNoon |-> NaN]

\* getSunriseSunset: the first pass returns null when its cosH is out of
\* range, before the corrected pass is computed
getSunriseSunset(day, lat, lng) ==
    LET s == SunAt(day, lat, lng)
    IN IF OutOfRange(s.cosH) THEN NoTimes
       ELSE IF OutOfRange(s.cosH_new) THEN NoTimes
       ELSE [sunrise |-> s.rise, sunset |-> s.set, solarNoon |-> s.noon]

NoSunriseSunset == "No sunrise/sunset at this location today."
\* the windows around sunrise and sunset, in minutes
BrahmaStart == 96
BrahmaEnd == 48
Sandhya == 24
MuhurtaTimes(times) ==
    [sunrise |-> times.sunrise,
     sunset |-> times.sunset,
     brahma |-> [start |-> Sub(times.sunrise, BrahmaStart),
                 end |-> Sub(times.sunrise, BrahmaEnd)],
     pratahSandhya |-> [start |-> Sub(times.sunrise, Sandhya),
                        end |-> Add(times.sunrise, Sandhya)],
     sayamSandhya |-> [start |-> Sub(times.sunset, Sandhya),
                       end |-> Add(times.sunset, Sandhya)]]

\* variant of computeMuhurta: the null is not tested
computeMuhurtaUnchecked(day, lat, lon) ==
    MuhurtaTimes(getSunriseSunset(day, lat, lon))

\* computeMuhurta: {error} when getSunriseSunset returned null, the times and
\* the three windows otherwise
computeMuhurta(day, lat, lon) ==
    LET times == getSunriseSunset(day, lat, lon)
    IN IF times = NoTimes THEN [error |-> NoSunriseSunset]
       ELSE MuhurtaTimes(times)

\* timings.error is truthy
HasError(timings) == "error" \in DOMAIN timings

\* the MuhurtaScreen after its constructor; listContainer is empty
NewMuhurtaScreen(today) ==
    [currentDate |-> today, lat |-> Null, lon |-> Null, shown |-> "blank",
     message |-> "", dateDisplay |-> Null, cards |-> <<>>, modal |-> "",
     ics |-> [title |-> "", days |-> 0, events |-> <<>>]]

Card(title, start, end) == [title |-> title, start |-> start, end |-> end]
CardTitles ==
    {"Sunrise", "Sunset", "Brahma Muhurta", "Pratah Sandhya", "Sayam Sandhya"}

\* MuhurtaScreen.render
render(m) ==
    IF m.lat = Null
    THEN [m EXCEPT !.shown = "waiting", !.message = "Waiting for location...",
                   !.cards = <<>>]
    ELSE
      LET timings == computeMuhurta(m.currentDate, m.lat, m.lon)
      IN IF HasError(timings)
         THEN [m EXCEPT !.dateDisplay = m.currentDate, !.shown = "error",
                        !.message = timings.error, !.cards = <<>>]
         ELSE [m EXCEPT !.dateDisplay = m.currentDate, !.shown = "cards",
                        !.message = "",
                        !.cards =
                          << Card("Sunrise", timings.sunrise, Null),
                             Card("Sunset", timings.sunset, Null),
                             Card("Brahma Muhurta", timings.brahma.start,
                                  timings.brahma.end),
                             Card("Pratah Sandhya", timings.pratahSandhya.start,
                                  timings.pratahSandhya.end),
                             Card("Sayam Sandhya", timings.sayamSandhya.start,
                                  timings.sayamSandhya.end) >>]

\* MuhurtaScreen.updateLocation
updateLocation(m, lat, lon) == render([m EXCEPT !.lat = lat, !.lon = lon])

\* the length in minutes of a Sunrise or Sunset calendar event
EventMinutes == 10
\* sTime and eTime of generateCalendarFile for a title
EventTimes(title, timings) ==
    IF title = "Sunrise"
    THEN [start |-> timings.sunrise, end |-> Add(timings.sunrise, EventMinutes)]
    ELSE IF title = "Sunset"
    THEN [start |-> timings.sunset, end |-> Add(timings.sunset, EventMinutes)]
    ELSE IF title = "Brahma Muhurta" THEN timings.brahma
    ELSE IF title = "Pratah Sandhya" THEN timings.pratahSandhya
    ELSE timings.sayamSandhya

RECURSIVE CalendarEvents(_, _, _, _)
\* the loop of generateCalendarFile from day i on: the events pushed, each
\* with the day of the loop it was pushed in
CalendarEvents(m, title, days, i) ==
    IF i >= days THEN <<>>
    ELSE LET timings == computeMuhurta(m.currentDate + i, m.lat, m.lon)
             rest == CalendarEvents(m, title, days, i + 1)
         IN IF HasError(timings) THEN rest
            ELSE LET t == EventTimes(title, timings)
                 IN << [day |-> m.currentDate + i, title |-> title,
                        start |-> t.start, end |-> t.end] >> \o rest

\* MuhurtaScreen.generateCalendarFile: the events handed to buildIcsEvents
generateCalendarFile(m, title, days) ==
    [m EXCEPT !.ics = [title |-> title, days |-> days,
                       events |-> CalendarEvents(m, title, days, 0)]]

\* ------------------------------------------------------------ inputs ----
Ev(a, b, c) == [alpha |-> a, beta |-> b, gamma |-> 0, compass |-> c]

\* orientation events with every field a number (or no compass heading)
Events ==
    { Ev(Deg(0), Deg(90), Undef),        \* facing North, upright
      Ev(Deg(270), Deg(180), Undef),     \* raw heading 90, camera to the sky
      Ev(Deg(1), Deg(0), Undef),         \* raw heading 359, across the seam
      Ev(Deg(160), Deg(0 - 180), Undef), \* raw heading 200, beta at its minimum
      Ev(Deg(10), Deg(45), Deg(350)),    \* compass heading 350
      Ev(Deg(90), Deg(90), 0) }          \* compass heading exactly 0

\* orientation events with a null or missing alpha or beta
DegenerateEvents ==
    { Ev(Null, Deg(45), Undef), Ev(Deg(90), Null, Undef),
      Ev(Undef, Deg(45), Undef), Ev(Deg(90), Undef, Undef) }

\* storage left by earlier sessions: nothing, or offsets written by calibration
Stores == { [north |-> Null, pitch |-> Null],
            [north |-> Deg(0 - 90), pitch |-> Deg(10)] }

\* storage holding an empty or unparsable string
DegenerateStores ==
    { [north |-> StrGarbage, pitch |-> Null],
      [north |-> Null, pitch |-> StrGarbage],
      [north |-> StrEmpty, pitch |-> StrEmpty] }

Positions == { [lat |-> 23, lon |-> 86] }

\* ----------------------------------------------------------- actions ----
InitWith(stores, args, currents) ==
    /\ rev \in {"sensor", "app"}
    /\ store \in stores
    /\ mgrs = <<>>
    /\ appState = [lat |-> Null, lon |-> Null, targetBody |-> NoBody,
                   currentHeading |-> 0, currentPitch |-> 0, isLocked |-> FALSE]
    /\ screen = "start"
    /\ ui = [turnMsg |-> NoMsg, tiltMsg |-> NoMsg, arrowHidden |-> FALSE,
             lockHidden |-> TRUE, arrowRot |-> 0, warnHidden |-> TRUE,
             sensorsDenied |-> FALSE]
    /\ sky = 0
    /\ geoPending = 0
    /\ timers = 0
    /\ evals = <<>>
    /\ calls = 0
    /\ lastOp = "init"
    /\ thrown = FALSE
    /\ lastEvent = NoEvent
    /\ nSamples = 0 /\ nCal = 0
    /\ wrapArg \in args
    /\ wrapRes = [done |-> FALSE, r |-> 0, shifted |-> 0]
    /\ atRest \in [current : currents, done : {FALSE}, heading : {Zero},
                    pitch : {Zero}]
    /\ muhurta = NewMuhurtaScreen(0)
    /\ browser \in [vibrate : BOOLEAN, listeners : {<<>>}]

\* what a handler that runs no guidance evaluation and does not throw leaves
\* behind
Quiet(op) == evals' = <<>> /\ calls' = 0 /\ lastOp' = op /\ thrown' = FALSE

\* variant of start: true is returned but no listener is registered
startUnregistered(m) == [m EXCEPT !.granted = "true"]

\* start(): both listeners registered
start(m) == [m EXCEPT !.listening = TRUE, !.granted = "true"]

\* window.addEventListener in start(): the handler of manager i, once
\* registered, is called after the handlers registered before it
addEventListener(b, m, i) ==
    IF m.listening THEN [b EXCEPT !.listeners = Append(@, i)] ELSE b

\* the start button's click handler.  hasGeo: 'geolocation' in navigator;
\* prompt: DeviceOrientationEvent.requestPermission is a function; s: the
\* instant at which initApp renders the list
StartBtnClick(hasGeo, prompt, s) ==
    /\ screen = "start"
    /\ Len(mgrs) < MaxStartClicks
    /\ IF hasGeo
       THEN /\ geoPending' = geoPending + 1
            /\ UNCHANGED <<appState, screen, sky, timers>>
       ELSE /\ appState' = [appState EXCEPT !.lat = 0, !.lon = 0]
            /\ screen' = "list"
            /\ s >= sky
            /\ sky' = s
            /\ timers' = timers + 1
            /\ UNCHANGED geoPending
    /\ LET m == NewManager(rev, store)
       IN IF prompt
          THEN /\ mgrs' = Append(mgrs, [m EXCEPT !.perm = "pending"])
               /\ UNCHANGED browser
          ELSE /\ mgrs' = Append(mgrs, start(m))
               /\ browser' = addEventListener(browser, start(m), Len(mgrs) + 1)
    /\ Quiet("startBtn")
    /\ UNCHANGED <<rev, store, ui, lastEvent, nSamples, nCal, wrapArg, wrapRes, atRest, muhurta>>

\* the permission prompt of manager i is answered (or the request throws)
PermissionResult(i, response) ==
    /\ i \in 1..Len(mgrs)
    /\ mgrs[i].perm = "pending"
    /\ IF response = "granted"
       THEN /\ mgrs' = [mgrs EXCEPT ![i] = [start(@) EXCEPT !.perm = response]]
            /\ browser' = addEventListener(browser, start(mgrs[i]), i)
            /\ UNCHANGED ui
       ELSE /\ mgrs' = [mgrs EXCEPT ![i].perm = response, ![i].granted = "false"]
            /\ ui' = [ui EXCEPT !.sensorsDenied = TRUE]
            /\ UNCHANGED browser
    /\ Quiet("permission")
    /\ UNCHANGED <<rev, store, appState, screen, sky, geoPending, timers, lastEvent,
                   nSamples, nCal, wrapArg, wrapRes, atRest, muhurta>>

\* a getCurrentPosition callback: success with a position, or the error callback
GeoResult(ok, pos, s) ==
    /\ geoPending > 0
    /\ geoPending' = geoPending - 1
    /\ appState' = IF ok THEN [appState EXCEPT !.lat = pos.lat, !.lon = pos.lon]
                   ELSE [appState EXCEPT !.lat = 0, !.lon = 0]
    /\ screen' = "list"
    /\ s >= sky
    /\ sky' = s
    /\ timers' = timers + 1
    /\ Quiet("geo")
    /\ UNCHANGED <<rev, store, mgrs, ui, lastEvent, nSamples, nCal, wrapArg, wrapRes, atRest, muhurta, browser>>

\* a refresh timer fires: updateObjectList at instant s
Tick(s) ==
    /\ timers > 0
    /\ s >= sky
    /\ sky' = IF appState.lat = Null THEN sky ELSE s
    /\ Quiet("tick")
    /\ UNCHANGED <<rev, store, mgrs, appState, screen, ui, geoPending, timers,
                   lastEvent, nSamples, nCal, wrapArg, wrapRes, atRest, muhurta, browser>>

\* a card of the object list is clicked: startTracking(body)
StartTracking(n) ==
    /\ screen = "list"
    /\ sky # 0
    /\ LET g0 == [appState |-> [appState EXCEPT !.targetBody = Sky[sky][n]],
                  ui |-> ui, evals |-> <<>>, calls |-> 0,
                  vibrate |-> browser.vibrate]
           first == updatePointerUI(g0, "pointer", Exact)
       IN \E ts \in (IF nSamples = 0 THEN {<<Exact>>}
                    ELSE TiesOf(first.evals, 1, FALSE)) :
       LET g == updatePointerUI(g0, "pointer", ts[1])
       IN /\ appState' = g.appState
          /\ ui' = g.ui
          /\ evals' = g.evals
          /\ calls' = g.calls
    /\ screen' = "pointer"
    /\ lastOp' = "startTracking"
    /\ thrown' = FALSE
    /\ UNCHANGED <<rev, store, mgrs, sky, geoPending, timers, lastEvent,
                   nSamples, nCal, wrapArg, wrapRes, atRest, muhurta, browser>>

\* the back button of the pointer screen
BackBtnClick ==
    /\ screen = "pointer"
    /\ screen' = "list"
    /\ appState' = [appState EXCEPT !.targetBody = NoBody]
    /\ Quiet("back")
    /\ UNCHANGED <<rev, store, mgrs, ui, sky, geoPending, timers, lastEvent,
                   nSamples, nCal, wrapArg, wrapRes, atRest, muhurta, browser>>

\* a deviceorientation / deviceorientationabsolute event is dispatched
OrientationEvent(ev) ==
    /\ nSamples < MaxSamples
    /\ browser.listeners # <<>>
    /\ nSamples' = nSamples + 1
    /\ LET n == Len(browser.listeners)
           g0 == [appState |-> appState, ui |-> ui, evals |-> <<>>,
                  calls |-> 0, vibrate |-> browser.vibrate]
           first == Dispatch(rev, mgrs, g0, screen, ev, browser.listeners,
                             [k \in 1..n |-> Exact], 1)
           halfTurn ==
               \E k \in 1..n :
                  LET m == mgrs[browser.listeners[k]]
                  IN AtHalfTurn(Sub(CalibratedHeading(RawHeading(ev),
                                                      m.calibrationOffset),
                                    m.heading))
       IN \E ts \in { f \in TiesOf(first.g.evals, n, nSamples > 0 /\ halfTurn) :
                       nSamples = 0 => \A k \in 1..n : f[k].wrap } :
       LET d == Dispatch(rev, mgrs, g0, screen, ev, browser.listeners, ts, 1)
       IN /\ mgrs' = d.mgrs
          /\ appState' = d.g.appState
          /\ ui' = d.g.ui
          /\ evals' = d.g.evals
          /\ calls' = d.g.calls
    /\ lastOp' = "orientation"
    /\ thrown' = FALSE
    /\ lastEvent' = ev
    /\ UNCHANGED <<rev, store, screen, sky, geoPending, timers, nCal, wrapArg, wrapRes, atRest, muhurta, browser>>

\* the manager's heading offset is replaced, then written to storage; when
\* localStorage.setItem throws (fails), the exception leaves the method and
\* the click handler
CalibrateNorth(offset, fails) ==
    /\ nCal < MaxCalibrations
    /\ nCal' = nCal + 1
    /\ mgrs' = [mgrs EXCEPT ![sensorManager].calibrationOffset = offset]
    /\ store' = IF fails THEN store ELSE [store EXCEPT !.north = ToStored(offset)]
    /\ evals' = <<>> /\ calls' = 0 /\ lastOp' = "setNorth"
    /\ thrown' = fails
    /\ UNCHANGED <<rev, appState, screen, ui, sky, geoPending, timers, lastEvent,
                   nSamples, wrapArg, wrapRes, atRest, muhurta, browser>>

\* the manager's pitch offset is replaced, then written to storage
CalibrateHorizon(offset, fails) ==
    /\ nCal < MaxCalibrations
    /\ nCal' = nCal + 1
    /\ mgrs' = [mgrs EXCEPT ![sensorManager].pitchOffset = offset]
    /\ store' = IF fails THEN store ELSE [store EXCEPT !.pitch = ToStored(offset)]
    /\ evals' = <<>> /\ calls' = 0 /\ lastOp' = "setHorizon"
    /\ thrown' = fails
    /\ UNCHANGED <<rev, appState, screen, ui, sky, geoPending, timers, lastEvent,
                   nSamples, wrapArg, wrapRes, atRest, muhurta, browser>>

\* part_002: the set-north and set-horizon buttons
SetNorthBtnClick(fails) ==
    /\ rev = "app"
    /\ sensorManager # 0
    /\ CalibrateNorth(calibrateCurrentAsNorth(mgrs[sensorManager]), fails)

SetHorizonBtnClick(fails) ==
    /\ rev = "app"
    /\ sensorManager # 0
    /\ CalibrateHorizon(calibrateCurrentAsHorizon(mgrs[sensorManager]), fails)

\* sensor.js: setCalibration() and setPitchCalibration() are called
SetCalibration(fails) ==
    /\ rev = "sensor"
    /\ sensorManager # 0
    /\ CalibrateNorth(setCalibration(mgrs[sensorManager]), fails)

SetPitchCalibration(fails) ==
    /\ rev = "sensor"
    /\ sensorManager # 0
    /\ CalibrateHorizon(setPitchCalibration(mgrs[sensorManager]), fails)

\* ------------------------------------------------- muhurta handlers ----
\* the last day MuhurtaScreen.currentDate is moved to
MaxDay == 4
\* the durations offered by the calendar dialog
CalDays == {1, 7}
MuhurtaUnchanged ==
    UNCHANGED <<rev, store, mgrs, appState, ui, sky, geoPending, timers,
                lastEvent, nSamples, nCal, wrapArg, wrapRes, atRest, browser>>

\* click on muhurta-btn, before or after the position is known
MuhurtaBtnClick ==
    /\ screen \in {"start", "list"}
    /\ muhurta' = IF appState.lat # Null
                  THEN updateLocation(muhurta, appState.lat, appState.lon)
                  ELSE muhurta
    /\ screen' = "muhurta"
    /\ Quiet("muhurta")
    /\ MuhurtaUnchanged

\* click on muhurta-back-btn: onBack shows the list; the dialog, which
\* covers the screen while it is open, is closed
MuhurtaBackBtnClick ==
    /\ screen = "muhurta"
    /\ muhurta.modal = ""
    /\ screen' = "list"
    /\ Quiet("muhurta-back")
    /\ UNCHANGED muhurta
    /\ MuhurtaUnchanged

PrevDayClick ==
    /\ screen = "muhurta"
    /\ muhurta.modal = ""
    /\ muhurta.currentDate > 0
    /\ muhurta' = render([muhurta EXCEPT !.currentDate = @ - 1])
    /\ Quiet("prev-day")
    /\ UNCHANGED screen
    /\ MuhurtaUnchanged

NextDayClick ==
    /\ screen = "muhurta"
    /\ muhurta.modal = ""
    /\ muhurta.currentDate < MaxDay
    /\ muhurta' = render([muhurta EXCEPT !.currentDate = @ + 1])
    /\ Quiet("next-day")
    /\ UNCHANGED screen
    /\ MuhurtaUnchanged

\* click on the calendar button of a rendered card: openCalendarModal
OpenCalendarModal(i) ==
    /\ screen = "muhurta"
    /\ muhurta.modal = ""
    /\ i \in 1..Len(muhurta.cards)
    /\ muhurta' = [muhurta EXCEPT !.modal = muhurta.cards[i].title]
    /\ Quiet("calendar-open")
    /\ UNCHANGED screen
    /\ MuhurtaUnchanged

\* click on cal-add-btn: generateCalendarFile, then the dialog is hidden; the
\* dialog hangs on document.body and its buttons work on whatever screen
CalAddBtnClick(days) ==
    /\ muhurta.modal # ""
    /\ muhurta' = [generateCalendarFile(muhurta, muhurta.modal, days)
                     EXCEPT !.modal = ""]
    /\ Quiet("calendar")
    /\ UNCHANGED screen
    /\ MuhurtaUnchanged

\* click on cal-cancel-btn: the dialog is hidden
CalCancelBtnClick ==
    /\ muhurta.modal # ""
    /\ muhurta' = [muhurta EXCEPT !.modal = ""]
    /\ Quiet("calendar-cancel")
    /\ UNCHANGED screen
    /\ MuhurtaUnchanged

Muhurta ==
    \/ MuhurtaBtnClick
    \/ MuhurtaBackBtnClick
    \/ PrevDayClick
    \/ NextDayClick
    \/ \E i \in 1..Cardinality(CardTitles) : OpenCalendarModal(i)
    \/ \E days \in CalDays : CalAddBtnClick(days)
    \/ CalCancelBtnClick

\* ---------------------------------------------------- specifications ----
Instants == 1..Len(Sky)
Responses == {"granted", "denied", "throws"}

Startup ==
    \/ \E hasGeo \in BOOLEAN, prompt \in BOOLEAN, s \in Instants :
          StartBtnClick(hasGeo, prompt, s)
    \/ \E i \in 1..MaxStartClicks, r \in Responses : PermissionResult(i, r)
    \/ \E ok \in BOOLEAN, pos \in Positions, s \in Instants : GeoResult(ok, pos, s)

Tracking ==
    \/ \E s \in Instants : Tick(s)
    \/ \E n \in BodyNames : StartTracking(n)
    \/ BackBtnClick

\* the storage write of a calibration succeeds or throws (quota, no access)
Calibration ==
    \/ \E fails \in BOOLEAN : SetNorthBtnClick(fails)
    \/ \E fails \in BOOLEAN : SetHorizonBtnClick(fails)
    \/ \E fails \in BOOLEAN : SetCalibration(fails)
    \/ \E fails \in BOOLEAN : SetPitchCalibration(fails)

\* the whole program
Init == InitWith(Stores, {0}, {Zero})
Next ==
    \/ Startup
    \/ Tracking
    \/ Calibration
    \/ \E ev \in Events : OrientationEvent(ev)
    \/ Muhurta
Spec == Init /\ [][Next]_vars


\* One session of the sensor pipeline: the start button is clicked once in a
\* browser without geolocation, then orientation events and calibrations
\* arrive in any order; no target is selected.
SensorEvents ==
    { Ev(Deg(0), Deg(90), Undef),        \* facing North, upright
      Ev(Deg(1), Deg(0), Undef),         \* raw heading 359, across the seam
      Ev(Deg(160), Deg(0 - 180), Undef), \* raw heading 200, beta at its minimum
      Ev(Deg(10), Deg(45), Deg(350)),    \* compass heading 350
      Ev(Deg(270), Deg(80), Undef) }     \* North and Horizon of the stored offsets
OneClick(hasGeos) ==
    /\ mgrs = <<>>
    /\ \E hasGeo \in hasGeos, prompt \in BOOLEAN, s \in Instants :
          StartBtnClick(hasGeo, prompt, s)
Answer == \E i \in 1..MaxStartClicks, r \in Responses : PermissionResult(i, r)
NextSensor ==
    \/ OneClick({FALSE})
    \/ Answer
    \/ Calibration
    \/ \E ev \in SensorEvents : OrientationEvent(ev)
SpecSensor == Init /\ [][NextSensor]_vars

\* The same session with null or missing event fields and with storage that
\* holds unparsable strings; no calibration.
InitAll == InitWith(Stores \cup DegenerateStores, {0}, {Zero})
NextAll ==
    \/ OneClick({FALSE})
    \/ Answer
    \/ \E ev \in SensorEvents \cup DegenerateEvents : OrientationEvent(ev)
SpecAll == InitAll /\ [][NextAll]_vars

\* Guidance: one click of the start button, geolocation callbacks, target
\* selection, refresh ticks and orientation events; no calibration.
GuideEvents ==
    { Ev(Deg(0), Deg(90), Undef),      \* facing North, upright
      Ev(Deg(0), Deg(180), Undef),     \* tilted away
      Ev(Deg(0), Deg(0), Undef),       \* tilted back
      Ev(Deg(270), Deg(90), Undef) }   \* turned to raw heading 90
NextGuide ==
    \/ OneClick(BOOLEAN)
    \/ Answer
    \/ \E ok \in BOOLEAN, pos \in Positions, s \in Instants : GeoResult(ok, pos, s)
    \/ Tracking
    \/ \E ev \in GuideEvents : OrientationEvent(ev)
SpecGuide == Init /\ [][NextGuide]_vars

\* The wrapping step on its own: an input difference is drawn, then wrapped,
\* together with the same difference one full turn further.
MaxTurns == 2
WrapInputs ==
    LET lim == FullTurn * MaxTurns
    IN { Deg(d) : d \in { e \in (0 - lim)..lim : e % 15 = 0 } }
       \cup { Deg(0 - HalfTurn) - 1, Deg(0 - HalfTurn) + 1,
              Deg(HalfTurn) - 1, Deg(HalfTurn) + 1 }
WrapStep ==
    /\ ~wrapRes.done
    /\ wrapRes' = [done |-> TRUE, r |-> Wrap180(wrapArg),
                   shifted |-> Wrap180(wrapArg + Deg(FullTurn))]
    /\ UNCHANGED <<rev, store, mgrs, appState, screen, ui, sky, geoPending, timers,
                   evals, calls, lastOp, thrown, lastEvent, nSamples, nCal, wrapArg,
                   atRest, muhurta, browser>>
InitWrap == InitWith(Stores, WrapInputs, {Zero})
NextWrap == WrapStep
SpecWrap == InitWrap /\ [][NextWrap]_vars

\* Start-up with a second click: in a browser with geolocation the start
\* screen stays visible until a position callback runs, so the start button
\* can be clicked again; each click asks for a position and constructs a
\* manager.  The callbacks, the permission answers, the refresh timers and
\* orientation events then arrive in any order.
StartEvents ==
    { Ev(Deg(0), Deg(90), Undef),      \* facing North, upright
      Ev(Deg(270), Deg(180), Undef) }  \* raw heading 90, camera to the sky
NextStart ==
    \/ \E prompt \in BOOLEAN, s \in Instants : StartBtnClick(TRUE, prompt, s)
    \/ Answer
    \/ \E ok \in BOOLEAN, pos \in Positions, s \in Instants : GeoResult(ok, pos, s)
    \/ \E s \in Instants : Tick(s)
    \/ \E ev \in StartEvents : OrientationEvent(ev)
SpecStart == Init /\ [][NextStart]_vars

\* The guidance evaluation as a function of the smoothed state it reads:
\* the start button was clicked in a browser without geolocation and without
\* a permission prompt, the list is shown, and the orientation events of the
\* session, last the event ev, have left the smoothed state at (h, p); no
\* further event is dispatched (nSamples is at its bound).  The state is
\* one the events computed: the evaluation takes either outcome where a
\* delta is at a constant it is compared with.
Session(stores, lasts, headings, pitches) ==
    /\ rev \in {"sensor", "app"}
    /\ store \in stores
    /\ \E ev \in lasts, h \in headings, p \in pitches :
          LET m0 == [start(NewManager(rev, store)) EXCEPT !.heading = h, !.pitch = p]
          IN /\ mgrs = << IF rev = "sensor"
                          THEN [m0 EXCEPT !.alpha = ev.alpha, !.beta = ev.beta,
                                          !.gamma = ev.gamma]
                          ELSE m0 >>
             /\ lastEvent = ev
             /\ appState = [lat |-> 0, lon |-> 0, targetBody |-> NoBody,
                            currentHeading |-> h, currentPitch |-> p,
                            isLocked |-> FALSE]
    /\ screen = "list"
    /\ ui = [turnMsg |-> NoMsg, tiltMsg |-> NoMsg, arrowHidden |-> FALSE,
             lockHidden |-> TRUE, arrowRot |-> 0, warnHidden |-> TRUE,
             sensorsDenied |-> FALSE]
    /\ sky = 1
    /\ geoPending = 0
    /\ timers = 1
    /\ evals = <<>>
    /\ calls = 0
    /\ lastOp = "init"
    /\ thrown = FALSE
    /\ nSamples = MaxSamples /\ nCal = 0
    /\ wrapArg = 0
    /\ wrapRes = [done |-> FALSE, r |-> 0, shifted |-> 0]
    /\ atRest = [current |-> Zero, done |-> FALSE, heading |-> Zero,
                 pitch |-> Zero]
    /\ muhurta = NewMuhurtaScreen(0)
    /\ browser \in [vibrate : BOOLEAN, listeners : {<<1>>}]

\* Guidance evaluation at the thresholds: the smoothed state is on, just
\* inside or just outside the 6 degree and 2 degree limits around the Moon
\* (az 120, alt 40) and the Sun (az 358, alt 2), or half a turn from the
\* Sun; targets are then selected, left and selected again.
Milli == Unit \div 1000
Around(d) == { Deg(d) - Milli, Deg(d), Deg(d) + Milli }
EvalHeadings ==
    Around(114) \cup Around(118) \cup Around(122) \cup Around(126)
       \cup { Deg(120), Deg(115), Deg(352), Deg(4), Deg(300), Deg(178) }
EvalPitches ==
    Around(34) \cup Around(38) \cup Around(42) \cup Around(46)
       \cup { Deg(40), Deg(36), Deg(0), Deg(0 - 4) }
InitEval ==
    Session({[north |-> Null, pitch |-> Null]}, {Ev(Deg(0), Deg(90), Undef)},
            EvalHeadings, EvalPitches)
NextEval == Tracking
SpecEval == InitEval /\ [][NextEval]_vars

\* Smoothing: the start button is clicked once in a browser without
\* geolocation, then orientation events arrive; the events include a
\* difference of exactly half a turn from the constructor's heading 0 and
\* from the heading 27 that event leaves, the 0/360 seam, a compass heading
\* of exactly 0 and the samples that equal the state.
SmoothEvents ==
    { Ev(Deg(180), Deg(90), Undef),    \* raw heading 180, level
      Ev(Deg(153), Deg(90), Undef),    \* raw heading 207, level
      Ev(Deg(0), Deg(90), Undef),      \* raw heading 0, level
      Ev(Deg(1), Deg(0), Undef),       \* raw heading 359, pitch -90
      Ev(Deg(270), Deg(80), Undef),    \* North and Horizon of the stored offsets
      Ev(Deg(90), Deg(90), 0),         \* compass heading exactly 0
      Ev(Deg(10), Deg(45), Deg(350)) } \* compass heading 350
NextSmooth ==
    \/ OneClick({FALSE})
    \/ Answer
    \/ \E ev \in SmoothEvents : OrientationEvent(ev)
SpecSmooth == Init /\ [][NextSmooth]_vars

\* Lock under a steady sample: the start button is clicked once in a browser
\* without geolocation and with nothing in storage, at most one orientation
\* event arrives, the Sun (az 358, alt 2, or az 3, alt -1) is selected, and
\* from then on every orientation event is the one sample whose calibrated
\* heading is the target's azimuth and whose calibrated pitch is the
\* target's altitude.  The earlier event leaves the smoothed state at (0, 0),
\* at (4.5, 4.5), from where the first steady sample at the latest brings
\* both deltas inside the tolerance, or at (NaN, NaN).
PriorEvents ==
    { Ev(Deg(0), Deg(90), Undef),      \* facing North, upright
      Ev(Deg(330), Deg(120), Undef),   \* raw heading 30, pitch 30
      [alpha |-> Undef, beta |-> Undef, gamma |-> Undef, compass |-> Undef] }
                                       \* an event object without the angles
PriorSample ==
    /\ appState.targetBody = NoBody
    /\ nSamples = 0
    /\ \E ev \in PriorEvents : OrientationEvent(ev)
\* the event that reads as the target's position under the manager's offsets
OnTarget(m, t) ==
    LET raw == Mod360(Deg(2 * FullTurn) + t.az - m.calibrationOffset)
    IN Ev(Mod360(Deg(FullTurn) - raw), t.alt + Deg(Upright) - m.pitchOffset, Undef)
SteadySample ==
    /\ appState.targetBody # NoBody
    /\ screen = "pointer"
    /\ OrientationEvent(OnTarget(mgrs[sensorManager], appState.targetBody))
InitLock == InitWith({[north |-> Null, pitch |-> Null]}, {0}, {Zero})
NextLock ==
    \/ OneClick({FALSE})
    \/ Answer
    \/ PriorSample
    \/ StartTracking("Sun")
    \/ SteadySample
\* SteadySample can happen exactly in the states SteadyEnabled, and among the
\* steps of NextLock it is then the one that counts a sample; SteadyStep
\* states that much of it, for the fairness condition
SteadyEnabled ==
    /\ appState.targetBody # NoBody
    /\ screen = "pointer"
    /\ nSamples < MaxSamples
    /\ browser.listeners # <<>>
SteadyStep == SteadyEnabled /\ nSamples' = nSamples + 1
\* the samples keep coming: the event source is the device
SpecLock == InitLock /\ [][NextLock]_vars /\ WF_nSamples(SteadyStep)

\* The smoothing step at rest: a double is drawn, then the smoothing step of
\* sensor.js is applied to it as the smoothed heading and as the smoothed
\* pitch, the sample being the double itself.  The doubles are those up to
\* MaxLow steps of 2^-48 above one of a few whole numbers of degrees.
RestCurrents ==
    { d \in [whole : {27, 45, 114, 153, 200, 359}, low : 0..MaxLow] : IsDouble(d) }
SmoothAtRest ==
    /\ ~atRest.done
    /\ atRest' = [atRest EXCEPT !.done = TRUE,
                                !.heading = smoothAngleAtRest(atRest.current),
                                !.pitch = pitchAtRest(atRest.current)]
    /\ UNCHANGED <<rev, store, mgrs, appState, screen, ui, sky, geoPending, timers,
                   evals, calls, lastOp, thrown, lastEvent, nSamples, nCal, wrapArg,
                   wrapRes, muhurta, browser>>
InitRest == InitWith(Stores, {0}, RestCurrents)
NextRest == SmoothAtRest
SpecRest == InitRest /\ [][NextRest]_vars

\* With k orientation events still to come, every smoothed value and every
\* offset is a whole multiple of SmoothDen^k units, and events carry whole
\* degrees: each product with 0.15 and 0.85 that an event computes divides
\* without remainder, so the model's smoothing is the code's arithmetic
\* without rounding.
Whole(x, k) == x = NaN \/ x % (SmoothDen ^ k) = 0
ExactSmoothing ==
    \A i \in 1..Len(mgrs) :
       LET k == MaxSamples - nSamples
       IN /\ Whole(mgrs[i].heading, k)
          /\ Whole(mgrs[i].pitch, k)
          /\ Whole(mgrs[i].calibrationOffset, k)
          /\ Whole(mgrs[i].pitchOffset, k)

\* The muhurta screen, constructed on one of the days 0..MaxDay: either the
\* start screen is still shown and no position is known, or the session is
\* under way, the list is shown and the position is one of MuhurtaPlaces.
InitMuhurta ==
    /\ rev \in {"sensor", "app"}
    /\ store = [north |-> StrEmpty, pitch |-> StrEmpty]
    /\ \E pos \in MuhurtaPlaces \cup { [lat |-> Null, lon |-> Null] } :
          appState = [lat |-> pos.lat, lon |-> pos.lon, targetBody |-> NoBody,
                      currentHeading |-> 0, currentPitch |-> 0,
                      isLocked |-> FALSE]
    /\ mgrs = IF appState.lat = Null THEN <<>> ELSE << start(NewManager(rev, store)) >>
    /\ screen = IF appState.lat = Null THEN "start" ELSE "list"
    /\ ui = [turnMsg |-> NoMsg, tiltMsg |-> NoMsg, arrowHidden |-> FALSE,
             lockHidden |-> TRUE, arrowRot |-> 0, warnHidden |-> TRUE,
             sensorsDenied |-> FALSE]
    /\ sky = IF appState.lat = Null THEN 0 ELSE 1
    /\ geoPending = 0
    /\ timers = IF appState.lat = Null THEN 0 ELSE 1
    /\ evals = <<>>
    /\ calls = 0
    /\ lastOp = "init"
    /\ thrown = FALSE
    /\ lastEvent = NoEvent
    /\ nSamples = 0 /\ nCal = 0
    /\ wrapArg = 0
    /\ wrapRes = [done |-> FALSE, r |-> 0, shifted |-> 0]
    /\ atRest = [current |-> Zero, done |-> FALSE, heading |-> Zero,
                 pitch |-> Zero]
    /\ \E today \in 0..MaxDay : muhurta = NewMuhurtaScreen(today)
    /\ browser \in [vibrate : BOOLEAN,
                    listeners : {IF appState.lat = Null THEN <<>> ELSE <<1>>}]
NextMuhurta == Muhurta
SpecMuhurta == InitMuhurta /\ [][NextMuhurta]_vars

\* ------------------------------------------------------------ claims ----
HeadingInRange(h) == h # NaN /\ 0 <= h /\ h < Deg(FullTurn)

\* C1: after any sequence of orientation samples and heading calibrations,
\* every manager's smoothed heading, and the heading handed to the guidance
\* code, is in [0,360).
C1_HeadingInRange ==
    /\ \A i \in 1..Len(mgrs) : HeadingInRange(mgrs[i].heading)
    /\ HeadingInRange(appState.currentHeading)

\* a sample has been smoothed across the seam after a calibration changed the offset
C1_Witness ==
    /\ sensorManager # 0
    /\ lastOp = "orientation"
    /\ nSamples >= 2
    /\ nCal >= 1
    /\ mgrs[sensorManager].calibrationOffset # 0
    /\ mgrs[sensorManager].heading > Deg(HalfTurn)
    /\ appState.currentHeading = mgrs[sensorManager].heading

\* the differences of two angles of [0,360)
IsHeadingDifference(x) == Deg(0 - FullTurn) < x /\ x < Deg(FullTurn)

\* C2 (amended): for azimuth and heading in [0,360) the wrapped difference is
\* in the closed interval [-180,180] and differs from the raw difference by
\* whole turns.
C2_WrappedDifferenceClosed ==
    (wrapRes.done /\ IsHeadingDifference(wrapArg)) =>
        /\ Deg(0 - HalfTurn) <= wrapRes.r
        /\ wrapRes.r <= Deg(HalfTurn)
        /\ (wrapRes.r - wrapArg) % Deg(FullTurn) = 0

\* C2 as stated: the wrapped difference is in the half-open (-180,180].
C2_WrappedDifferenceHalfOpen ==
    (wrapRes.done /\ IsHeadingDifference(wrapArg)) =>
        /\ Deg(0 - HalfTurn) < wrapRes.r
        /\ wrapRes.r <= Deg(HalfTurn)

\* a difference of exactly -180 has been wrapped, and stays -180
C2_Witness ==
    /\ wrapRes.done
    /\ wrapArg = Deg(0 - HalfTurn)
    /\ wrapRes.r = Deg(0 - HalfTurn)

\* C3 (amended): wrapping x and wrapping x + 360 give the same result for
\* every x other than exactly -180.
C3_PeriodicExceptSeam ==
    (wrapRes.done /\ wrapArg # Deg(0 - HalfTurn)) => wrapRes.r = wrapRes.shifted

\* C3 as stated: wrapping x and wrapping x + 360 give the same result for every x.
C3_Periodic == wrapRes.done => wrapRes.r = wrapRes.shifted

\* a difference just below -180 and the same difference a turn further wrap alike
C3_Witness ==
    /\ wrapRes.done
    /\ wrapArg = Deg(0 - HalfTurn) - 1
    /\ wrapRes.r = Deg(HalfTurn) - 1
    /\ wrapRes.shifted = wrapRes.r

Missing(v) == v = Null \/ v = Undef

\* C4: an orientation event whose alpha or beta is null or missing leaves
\* every manager's heading and pitch as they were and does not invoke the
\* guidance callback.
C4_DegenerateEventDropped ==
    [][ (lastOp' = "orientation"
          /\ (Missing(lastEvent'.alpha) \/ Missing(lastEvent'.beta)))
        => /\ \A i \in 1..Len(mgrs) : /\ mgrs'[i].heading = mgrs[i].heading
                                      /\ mgrs'[i].pitch = mgrs[i].pitch
           /\ calls' = 0 ]_vars

\* C5: after any sequence of samples with beta in [-180,180] and horizon
\* calibrations, every manager's smoothed pitch is in [-90,90].
C5_PitchInRange ==
    \A i \in 1..Len(mgrs) :
        /\ mgrs[i].pitch # NaN
        /\ Deg(0 - Upright) <= mgrs[i].pitch
        /\ mgrs[i].pitch <= Deg(Upright)

\* the raw headings a sample can carry
RawSamples == { RawHeading(ev) : ev \in SensorEvents }

\* (this.heading - this.calibrationOffset + 360) % 360 of a manager
RecoveredRaw(m) == Mod360(Add(Sub(m.heading, m.calibrationOffset), Deg(FullTurn)))

\* C6 (amended): after the set-North action, a sample yields calibrated
\* heading 0 exactly when its raw heading is the raw heading recovered from
\* the smoothed heading, (heading - oldOffset + 360) mod 360.
C6_RoundTripOfRecoveredRaw ==
    [][ lastOp' = "setNorth" =>
          LET m == mgrs[sensorManager]
              new == mgrs'[sensorManager].calibrationOffset
          IN \A r \in RawSamples \cup {RecoveredRaw(m)} :
                (CalibratedHeading(r, new) = 0) <=> (r = RecoveredRaw(m)) ]_vars

\* C6 as stated: after the set-North action, the raw heading of the most
\* recent sample yields calibrated heading 0.
C6_RoundTripOfLastSample ==
    (lastOp = "setNorth" /\ nSamples > 0) =>
        CalibratedHeading(RawHeading(lastEvent),
                          mgrs[sensorManager].calibrationOffset) = 0

\* set-North was invoked with a nonzero offset in force, and the most recent
\* sample's raw heading now reads 0
C6_Witness ==
    /\ lastOp = "setNorth"
    /\ nSamples > 0
    /\ mgrs[sensorManager].calibrationOffset # 0
    /\ CalibratedHeading(RawHeading(lastEvent),
                         mgrs[sensorManager].calibrationOffset) = 0

\* the beta values a sample can carry
BetaSamples == { ev.beta : ev \in SensorEvents }

\* C7 (amended): horizon calibration sets newOffset = oldOffset - currentPitch
\* in both implementations; a sample then yields calibrated pitch 0 exactly
\* when its calibrated pitch under the old offset was the smoothed pitch.
C7_HorizonOffset ==
    [][ lastOp' = "setHorizon" =>
          LET m == mgrs[sensorManager]
              new == mgrs'[sensorManager].pitchOffset
          IN /\ new = Sub(m.pitchOffset, m.pitch)
             /\ \A b \in BetaSamples :
                   (CalibratedPitch(b, new) = 0)
                      <=> (CalibratedPitch(b, m.pitchOffset) = m.pitch) ]_vars

\* C7 as stated: newOffset = oldOffset - currentPitch, and the beta of the
\* most recent sample then yields calibrated pitch 0.
C7_HorizonZeroesLastSample ==
    [][ lastOp' = "setHorizon" =>
          LET m == mgrs[sensorManager]
              new == mgrs'[sensorManager].pitchOffset
          IN /\ new = Sub(m.pitchOffset, m.pitch)
             /\ (nSamples > 0 => CalibratedPitch(lastEvent.beta, new) = 0) ]_vars

\* set-Horizon was invoked with a nonzero offset in force, and the most
\* recent sample's beta now reads 0
C7_Witness ==
    /\ lastOp = "setHorizon"
    /\ nSamples > 0
    /\ mgrs[sensorManager].pitchOffset # 0
    /\ CalibratedPitch(lastEvent.beta, mgrs[sensorManager].pitchOffset) = 0

Unparsable(v) == v \in {Null, StrEmpty, StrGarbage}

\* C8: the offsets a new manager loads are never NaN, and are 0 when the
\* stored value is absent or cannot be parsed.
C8_OffsetsLoaded ==
    lastOp = "startBtn" =>
        LET m == mgrs[sensorManager]
        IN /\ m.calibrationOffset # NaN
           /\ m.pitchOffset # NaN
           /\ (Unparsable(store.north) => m.calibrationOffset = 0)
           /\ (Unparsable(store.pitch) => m.pitchOffset = 0)

\* C9: in every handler, each guidance evaluation signals "just locked"
\* exactly when it is aligned and the lock flag was false before it, and
\* calls navigator.vibrate on exactly those evaluations where the browser
\* has it; the flag an evaluation finds is the alignment of the evaluation
\* before it, and handlers that run no evaluation leave the flag alone.
C9_LockEdge ==
    [][ /\ \A k \in 1..Len(evals') :
             /\ evals'[k].justLocked <=> (evals'[k].isAligned /\ ~evals'[k].wasLocked)
             /\ evals'[k].vibrated <=> (evals'[k].justLocked /\ browser.vibrate)
             /\ evals'[k].wasLocked =
                   (IF k = 1 THEN appState.isLocked ELSE evals'[k - 1].isAligned)
        /\ appState'.isLocked =
              (IF evals' = <<>> THEN appState.isLocked
               ELSE evals'[Len(evals')].isAligned) ]_vars

\* an orientation sample brought the device into alignment and pulsed
C9_Witness ==
    /\ lastOp = "orientation"
    /\ nSamples >= 2
    /\ Len(evals) = 1
    /\ evals[1].justLocked
    /\ appState.isLocked

\* C10: the first aligned evaluation after a target selection pulses.
C10_SelectionPulses ==
    (lastOp = "startTracking" /\ evals[1].isAligned) => evals[1].justLocked

\* the position of a body in the snapshot the list was last rendered from
Fresh(body) == Sky[sky][body.name]

\* C11: once a refresh tick has run with a target selected, the selected
\* target carries the position computed at that tick, and every guidance
\* evaluation uses the position of the latest snapshot.
C11_TickRefreshesTarget ==
    /\ (lastOp = "tick" /\ appState.targetBody # NoBody)
          => appState.targetBody = Fresh(appState.targetBody)
    /\ \A k \in 1..Len(evals) : evals[k].target = Fresh(evals[k].target)

\* C12: an orientation event that follows the back action invokes no handler:
\* no manager's state changes and the callback is not called.
C12_BackUnsubscribes ==
    [][ (lastOp = "back" /\ lastOp' = "orientation")
          => (mgrs' = mgrs /\ calls' = 0) ]_vars

\* C13: a calibration action whose storage write fails does not end with an
\* exception, and the offset it computed is in force.
C13_WriteFailureSwallowed ==
    [][ (lastOp' \in {"setNorth", "setHorizon"} /\ store' = store)
          => /\ ~thrown'
             /\ lastOp' = "setNorth" =>
                  mgrs'[sensorManager].calibrationOffset
                     = Neg(RecoveredRaw(mgrs[sensorManager]))
             /\ lastOp' = "setHorizon" =>
                  mgrs'[sensorManager].pitchOffset
                     = Sub(mgrs[sensorManager].pitchOffset,
                           mgrs[sensorManager].pitch) ]_vars

\* the evaluation the last handler ran last
LastEval == evals[Len(evals)]

\* x < bound as the evaluation e found it for the magnitude mag of one of its
\* deltas: the exact magnitude is below the bound, or it is at the bound
\* and its double, which an event computed, fell below (atBound is FALSE)
FoundBelow(mag, bound, atBound) == mag < bound \/ (mag = bound /\ ~atBound)

\* both deltas of the evaluation e were found inside the tolerance
WithinTolerance(e) ==
    /\ FoundBelow(Abs(e.azDiff), Deg(AlignTolerance), e.rounding.turn)
    /\ FoundBelow(Abs(e.altDiff), Deg(AlignTolerance), e.rounding.tilt)

\* C14: every guidance evaluation is aligned exactly when |azimuth delta|
\* and |altitude delta| are both below 6, strictly: a delta whose double is
\* 6 is not aligned, and a delta whose exact value is 6 is aligned only
\* when its double fell below 6; the screen shows the lock exactly when the
\* last evaluation was aligned.
C14_AlignedIffWithinSix ==
    /\ \A k \in 1..Len(evals) :
          /\ evals[k].isAligned <=> WithinTolerance(evals[k])
          /\ evals[k].isAligned =>
                /\ Abs(evals[k].azDiff) <= Deg(AlignTolerance)
                /\ Abs(evals[k].altDiff) <= Deg(AlignTolerance)
          /\ (/\ Abs(evals[k].azDiff) < Deg(AlignTolerance)
              /\ Abs(evals[k].altDiff) < Deg(AlignTolerance)) => evals[k].isAligned
          /\ (/\ Abs(evals[k].azDiff) = Deg(AlignTolerance)
              /\ evals[k].rounding.turn) => ~evals[k].isAligned
          /\ (/\ Abs(evals[k].altDiff) = Deg(AlignTolerance)
              /\ evals[k].rounding.tilt) => ~evals[k].isAligned
    /\ evals # <<>> =>
          /\ ui.lockHidden = ~LastEval.isAligned
          /\ (ui.turnMsg.dir = "ALIGNED") = LastEval.isAligned

\* an azimuth delta of 5.999 with altitude delta 0 was evaluated as aligned
C14_Witness ==
    /\ lastOp = "startTracking"
    /\ Len(evals) = 1
    /\ evals[1].azDiff = Deg(AlignTolerance) - Milli
    /\ evals[1].altDiff = 0
    /\ evals[1].isAligned
    /\ ~ui.lockHidden

\* the magnitude a message carries: x to the nearest tenth of a degree
Carries(mag, x) ==
    LET tenth == Unit \div 10
    IN /\ mag * tenth - x <= tenth \div 2
       /\ x - mag * tenth <= tenth \div 2

\* C15: after an evaluation that is not aligned, the turn message is OK iff
\* |azimuth delta| is below 2 (for an exact delta of 2: iff its double fell
\* below), else RIGHT for a positive and LEFT for a negative delta, and the
\* tilt message is OK iff |altitude delta| is below 2, else UP for a
\* positive and DOWN for a negative delta; both carry the absolute
\* magnitude.  Heading 114, pitch 36 against azimuth 120, altitude 40, the
\* delta being the double 6, is not aligned: turn right 6.0, tilt up 4.0.
C15_GuidanceText ==
    /\ (evals # <<>> /\ ~LastEval.isAligned) =>
          LET az == LastEval.azDiff
              alt == LastEval.altDiff
              azOk == FoundBelow(Abs(az), Deg(FineTolerance), LastEval.rounding.turn)
              altOk == FoundBelow(Abs(alt), Deg(FineTolerance), LastEval.rounding.tilt)
          IN /\ (ui.turnMsg.dir = "OK") <=> azOk
             /\ (ui.turnMsg.dir = "RIGHT") <=> (~azOk /\ az > 0)
             /\ (ui.turnMsg.dir = "LEFT") <=> (~azOk /\ az < 0)
             /\ ui.turnMsg.dir # "OK" => Carries(ui.turnMsg.mag, Abs(az))
             /\ (ui.tiltMsg.dir = "OK") <=> altOk
             /\ (ui.tiltMsg.dir = "UP") <=> (~altOk /\ alt > 0)
             /\ (ui.tiltMsg.dir = "DOWN") <=> (~altOk /\ alt < 0)
             /\ ui.tiltMsg.dir # "OK" => Carries(ui.tiltMsg.mag, Abs(alt))
    /\ (/\ evals # <<>>
        /\ LastEval.heading = Deg(114) /\ LastEval.pitch = Deg(36)
        /\ LastEval.target.az = Deg(120) /\ LastEval.target.alt = Deg(40)
        /\ LastEval.rounding.turn)
       => /\ ~LastEval.isAligned
          /\ ui.turnMsg = [dir |-> "RIGHT", mag |-> 60]
          /\ ui.tiltMsg = [dir |-> "UP", mag |-> 40]

\* heading 114, pitch 36 against azimuth 120, altitude 40: not aligned, turn
\* right 6.0, tilt up 4.0
C15_Witness ==
    /\ lastOp = "startTracking"
    /\ Len(evals) = 1
    /\ evals[1].heading = Deg(114) /\ evals[1].pitch = Deg(36)
    /\ evals[1].target.az = Deg(120) /\ evals[1].target.alt = Deg(40)
    /\ evals[1].rounding.turn
    /\ ~evals[1].isAligned
    /\ ui.turnMsg = [dir |-> "RIGHT", mag |-> 60]
    /\ ui.tiltMsg = [dir |-> "UP", mag |-> 40]

\* the raw heading the claim describes: the compass heading when one is
\* supplied, the z-rotation formula otherwise
StatedRawHeading(ev) ==
    IF ev.compass \notin {Undef, Null} THEN ev.compass
    ELSE Mod360(Add(Sub(Deg(FullTurn), ev.alpha), Deg(FullTurn)))

\* C16: every sample is smoothed towards the calibrated value of its compass
\* heading when it carries one (0 included), and of (360 - alpha + 360) mod
\* 360 only when it carries none.
C16_CompassHeadingUsed ==
    [][ lastOp' = "orientation" =>
          \A i \in 1..Len(mgrs) :
             mgrs[i].listening =>
                \E asExact \in BOOLEAN :
                   mgrs'[i].heading =
                      smoothAngle(mgrs[i].heading,
                                  CalibratedHeading(StatedRawHeading(lastEvent'),
                                                    mgrs[i].calibrationOffset),
                                  asExact) ]_vars

\* the distance between two headings around the circle
CircDist(a, b) ==
    LET d == (a - b) % Deg(FullTurn)
    IN IF d > Deg(HalfTurn) THEN Deg(FullTurn) - d ELSE d

Dist(a, b) == IF a < b THEN b - a ELSE a - b

\* the calibrated heading and pitch an event brings to a manager
IncomingHeading(m, ev) == CalibratedHeading(RawHeading(ev), m.calibrationOffset)
IncomingPitch(m, ev) == CalibratedPitch(ev.beta, m.pitchOffset)

C18_SmoothingRoundsAtRest ==
    atRest.done =>
        LET g == Spacing(atRest.current.whole + FullTurn)
            c == atRest.current.low
            r == atRest.heading.low
        IN /\ atRest.heading.whole = atRest.current.whole
           /\ r % g = 0
           /\ 2 * Dist(r, c) <= g
           /\ 2 * Dist(r, c) = g => (r \div g) % 2 = 0
           /\ atRest.heading = atRest.current <=> c % g = 0
           /\ smoothAngleAtRest(atRest.heading) = atRest.heading
           /\ atRest.pitch.whole = atRest.current.whole
           /\ IsDouble(atRest.pitch)
           /\ Dist(atRest.pitch.low, c) <= Spacing(atRest.current.whole)

\* C18 as stated: the smoothing step leaves a heading and a pitch that the
\* sample equals unchanged, for every heading in [0,360) and every pitch.
C18_SmoothingIdempotent ==
    atRest.done =>
        /\ atRest.heading = atRest.current
        /\ atRest.pitch = atRest.current

\* the step was applied to 27 + 3/2^48 as heading and as pitch, the sample
\* being equal: the heading came back as 27, the pitch as 27 + 4/2^48
C18_Witness ==
    /\ atRest.done
    /\ atRest.current = [whole |-> 27, low |-> 3]
    /\ atRest.heading = [whole |-> 27, low |-> 0]
    /\ atRest.pitch = [whole |-> 27, low |-> 4]

\* an orientation event whose calibrated heading and pitch equal the smoothed
\* heading and pitch leaves both unchanged in the arithmetic without rounding
IdempotentWithoutRounding ==
    [][ lastOp' = "orientation" =>
          \A i \in 1..Len(mgrs) :
             (/\ mgrs[i].listening
              /\ IncomingHeading(mgrs[i], lastEvent') = mgrs[i].heading
              /\ IncomingPitch(mgrs[i], lastEvent') = mgrs[i].pitch)
             => /\ mgrs'[i].heading = mgrs[i].heading
                /\ mgrs'[i].pitch = mgrs[i].pitch ]_vars


\* C19: an orientation event runs each listening manager's update once and
\* then its callback once; the guidance evaluation of that callback reads
\* the heading and pitch the update of the same event produced.
C19_EvaluationReadsUpdatedState ==
    [][ (lastOp' = "orientation" /\ ~Dropped(lastEvent')) =>
          LET ls == browser.listeners
          IN /\ calls' = Len(ls)
             /\ \A i \in 1..Len(mgrs) :
                   \E asExact \in BOOLEAN :
                      mgrs'[i] = IF mgrs[i].listening
                                 THEN Handle(rev, mgrs[i], lastEvent', asExact)
                                 ELSE mgrs[i]
             /\ (appState.targetBody # NoBody /\ screen = "pointer") =>
                   /\ Len(evals') = Len(ls)
                   /\ \A k \in 1..Len(ls) :
                         /\ evals'[k].heading = mgrs'[ls[k]].heading
                         /\ evals'[k].pitch = mgrs'[ls[k]].pitch
             /\ appState'.currentHeading = mgrs'[ls[Len(ls)]].heading
             /\ appState'.currentPitch = mgrs'[ls[Len(ls)]].pitch ]_vars

\* with a target selected, a second sample moved the smoothed state and the
\* evaluation read the moved values
C19_Witness ==
    /\ lastOp = "orientation"
    /\ nSamples >= 2
    /\ Len(evals) = 1
    /\ evals[1].heading = mgrs[sensorManager].heading
    /\ evals[1].pitch = mgrs[sensorManager].pitch
    /\ evals[1].heading # 0
    /\ evals[1].pitch # 0

\* C20: a manager whose permission request was denied or threw has resolved
\* to false and has no listener; one that resolved to true has its listeners
\* registered, and a granted request resolves to true.
C20_PermissionResult ==
    \A i \in 1..Len(mgrs) :
        /\ mgrs[i].perm \in {"denied", "throws"} =>
              (mgrs[i].granted = "false" /\ ~mgrs[i].listening)
        /\ mgrs[i].granted = "true" => mgrs[i].listening
        /\ mgrs[i].perm \in {"granted", "none"} => mgrs[i].granted = "true"
        /\ mgrs[i].granted = "false" => ui.sensorsDenied

\* the permission request threw: the manager resolved to false, registered
\* nothing, and the page says so
C20_Witness ==
    /\ sensorManager # 0
    /\ lastOp = "permission"
    /\ mgrs[sensorManager].perm = "throws"
    /\ mgrs[sensorManager].granted = "false"
    /\ ~mgrs[sensorManager].listening
    /\ ui.sensorsDenied

\* C21: once the observer location is set it never changes.
C21_LocationSetOnce ==
    [][ appState.lat # Null =>
          (appState'.lat = appState.lat /\ appState'.lon = appState.lon) ]_vars

\* C27: at most one manager is subscribed to the orientation events and at
\* most one refresh timer is active, and an orientation event invokes the
\* callback at most once.
C27_OneManagerOneTimer ==
    /\ Cardinality({ i \in 1..Len(mgrs) : mgrs[i].listening }) <= 1
    /\ timers <= 1
    /\ calls <= 1

\* C22 (amended): a calibration action assigns the new offset and, unless
\* the write throws, stores that same value in the same handler; a new
\* manager holds what storage parses to; no other handler changes an offset
\* of the current manager or the storage.
C22_OffsetsWrittenThrough ==
    [][ IF lastOp' = "startBtn"
        THEN /\ mgrs'[sensorManager'].calibrationOffset = LoadOffset(store.north)
             /\ mgrs'[sensorManager'].pitchOffset = LoadOffset(store.pitch)
             /\ store' = store
        ELSE IF sensorManager = 0 THEN store' = store
        ELSE LET m == mgrs[sensorManager]
                 n == mgrs'[sensorManager]
             IN IF lastOp' = "setNorth"
                THEN /\ n.pitchOffset = m.pitchOffset
                     /\ store'.pitch = store.pitch
                     /\ store'.north = IF thrown' THEN store.north
                                       ELSE n.calibrationOffset
                ELSE IF lastOp' = "setHorizon"
                THEN /\ n.calibrationOffset = m.calibrationOffset
                     /\ store'.north = store.north
                     /\ store'.pitch = IF thrown' THEN store.pitch
                                       ELSE n.pitchOffset
                ELSE /\ n.calibrationOffset = m.calibrationOffset
                     /\ n.pitchOffset = m.pitchOffset
                     /\ store' = store ]_vars

\* C22 as stated: in every state the offsets of the current manager are the
\* values storage holds.
C22_OffsetsEqualStorage ==
    sensorManager # 0 =>
        /\ mgrs[sensorManager].calibrationOffset = LoadOffset(store.north)
        /\ mgrs[sensorManager].pitchOffset = LoadOffset(store.pitch)

\* after a sample, set-North replaced a nonzero offset and storage holds the
\* new value
C22_Witness ==
    /\ lastOp = "setNorth"
    /\ ~thrown
    /\ nSamples > 0
    /\ mgrs[sensorManager].calibrationOffset \notin {0, Deg(0 - 90)}
    /\ store.north = mgrs[sensorManager].calibrationOffset
    /\ store.pitch = mgrs[sensorManager].pitchOffset

\* C23: after every guidance evaluation the below-horizon advisory is shown
\* exactly when the target's altitude is below 0, aligned or not.
C23_AdvisoryIffBelowHorizon ==
    evals # <<>> => (~ui.warnHidden <=> LastEval.target.alt < 0)

\* an aligned evaluation of a target below the horizon shows the advisory
C23_Witness ==
    /\ evals # <<>>
    /\ LastEval.isAligned
    /\ LastEval.target.alt < 0
    /\ ~ui.warnHidden
    /\ ~ui.lockHidden

\* C25 (amended): the lock has no hysteresis: after an evaluation the lock
\* flag is set exactly when both deltas were found below the 6 degree
\* tolerance, whether or not the session was locked before; the earlier
\* lock state decides only the pulse.
C25_LockFollowsAlignment ==
    evals # <<>> =>
        /\ appState.isLocked = WithinTolerance(LastEval)
        /\ LastEval.justLocked = (WithinTolerance(LastEval) /\ ~LastEval.wasLocked)

\* the deltas of the evaluations of the model, in whole degrees
DeltaGrid == { Deg(d) : d \in (0 - 12)..12 }

\* C25 as stated: there are deltas for which the lock flag after an
\* evaluation depends on whether the session was locked before it: an
\* evaluation of those deltas in this state would leave another flag had the
\* lock state been the other one.
C25_LockHasHysteresis ==
    \E az \in DeltaGrid, alt \in DeltaGrid, t \in Ties :
        LockAfter(IsAligned(az, alt, t), appState.isLocked)
           # LockAfter(IsAligned(az, alt, t), ~appState.isLocked)

\* a locked session was evaluated with an azimuth delta whose double is 6,
\* the altitude delta inside the tolerance, and the lock was released
C25_Witness ==
    /\ evals # <<>>
    /\ LastEval.wasLocked
    /\ LastEval.azDiff = Deg(AlignTolerance)
    /\ LastEval.rounding.turn
    /\ Abs(LastEval.altDiff) < Deg(AlignTolerance)
    /\ ~appState.isLocked

\* C26: a calibration action repeated with no sample in between leaves the
\* offset at its value after the first invocation.
C26_CalibrationIdempotent ==
    [][ /\ (lastOp = "setNorth" /\ lastOp' = "setNorth") =>
              mgrs'[sensorManager].calibrationOffset
                 = mgrs[sensorManager].calibrationOffset
        /\ (lastOp = "setHorizon" /\ lastOp' = "setHorizon") =>
              mgrs'[sensorManager].pitchOffset
                 = mgrs[sensorManager].pitchOffset ]_vars

\* C28: an orientation event or a refresh tick that arrives with no target
\* selected or with the pointer screen hidden runs no guidance evaluation
\* and leaves the lock flag, the guidance output, the target and the screen
\* as they were.
C28_NoTargetNoGuidance ==
    [][ (/\ lastOp' \in {"orientation", "tick"}
         /\ (appState.targetBody = NoBody \/ screen # "pointer"))
        => /\ evals' = <<>>
           /\ ui' = ui
           /\ appState'.isLocked = appState.isLocked
           /\ appState'.targetBody = appState.targetBody
           /\ appState'.lat = appState.lat /\ appState'.lon = appState.lon
           /\ screen' = screen
           /\ store' = store ]_vars

\* after the back action an orientation event moved the heading; the lock
\* flag and the lock indicator of the last evaluation are still set
C28_Witness ==
    /\ lastOp = "orientation"
    /\ appState.targetBody = NoBody
    /\ screen = "list"
    /\ calls = 1
    /\ appState.currentHeading # 0
    /\ appState.isLocked
    /\ ~ui.lockHidden

\* a target is selected and the steady samples are being dispatched
Steady ==
    /\ appState.targetBody # NoBody
    /\ screen = "pointer"
    /\ browser.listeners # <<>>

\* C29: with a target selected and every sample the one that reads as the
\* target's position, the session becomes locked, from any smoothed state,
\* and a locked session stays locked under those samples.
C29_LockLiveness ==
    /\ Steady ~> appState.isLocked
    /\ [][ (lastOp' = "orientation" /\ Steady /\ appState.isLocked)
             => appState'.isLocked ]_vars

\* the sessions of C29 whose smoothed heading and pitch are numbers do
\* become locked and stay locked
LocksFromNumbers ==
    /\ (/\ Steady
        /\ mgrs[sensorManager].heading # NaN
        /\ mgrs[sensorManager].pitch # NaN) ~> appState.isLocked
    /\ [][ (lastOp' = "orientation" /\ Steady /\ appState.isLocked)
             => appState'.isLocked ]_vars

\* a smoothed state that is not a number is not locked, and the steady
\* sample, whenever it is dispatched, leaves heading and pitch not numbers
\* and the application state and the guidance elements as they are; a
\* second one leaves the managers as they are too
NaNStateIsStuck ==
    (Steady /\ mgrs[sensorManager].heading = NaN) =>
        LET ls == browser.listeners
            ev == OnTarget(mgrs[sensorManager], appState.targetBody)
            g0 == [appState |-> appState, ui |-> ui, evals |-> <<>>,
                   calls |-> 0, vibrate |-> browser.vibrate]
            ts == [k \in 1..Len(ls) |-> Exact]
            once == Dispatch(rev, mgrs, g0, screen, ev, ls, ts, 1)
            twice == Dispatch(rev, once.mgrs, g0, screen, ev, ls, ts, 1)
        IN /\ mgrs[sensorManager].pitch = NaN
           /\ ~appState.isLocked
           /\ \A k \in 1..Len(evals) : ~evals[k].isAligned
           /\ once.mgrs[sensorManager].heading = NaN
           /\ once.mgrs[sensorManager].pitch = NaN
           /\ once.g.appState = appState
           /\ once.g.ui = ui
           /\ \A k \in 1..Len(once.g.evals) : ~once.g.evals[k].isAligned
           /\ twice = once

\* C24: on a day for which getSunriseSunset returns null, computeMuhurta
\* returns a record holding the error and nothing else; whenever the muhurta
\* screen holds a location, what it shows is the rendering of its current
\* day, and for such a day that is the error message and no card; the
\* events of a generated calendar are, in order, exactly the days of the
\* requested range that have a sunrise and sunset.
EventDays(m) ==
    { d \in m.currentDate..(m.currentDate + m.ics.days - 1) :
        getSunriseSunset(d, m.lat, m.lon) # NoTimes }
C24_NoEventReported ==
    /\ \A pos \in MuhurtaPlaces, d \in 0..(MaxDay + 6) :
          getSunriseSunset(d, pos.lat, pos.lon) = NoTimes
            => computeMuhurta(d, pos.lat, pos.lon) = [error |-> NoSunriseSunset]
    /\ muhurta.lat # Null =>
          /\ muhurta.shown \in {"error", "cards"}
          /\ muhurta.dateDisplay = muhurta.currentDate
          /\ getSunriseSunset(muhurta.currentDate, muhurta.lat, muhurta.lon) = NoTimes
               => /\ muhurta.shown = "error"
                  /\ muhurta.message = NoSunriseSunset
                  /\ muhurta.cards = <<>>
    /\ lastOp = "calendar" =>
          /\ \A i \in 1..Len(muhurta.ics.events) :
                muhurta.ics.events[i].day \in EventDays(muhurta)
          /\ \A i, j \in 1..Len(muhurta.ics.events) :
                i < j => muhurta.ics.events[i].day < muhurta.ics.events[j].day
          /\ Len(muhurta.ics.events) = Cardinality(EventDays(muhurta))

\* at 66 N 170 E a week of Sunrise events was generated on a day followed
\* by days without sunrise, and the screen was then moved to such a day
C24_Witness ==
    /\ lastOp = "next-day"
    /\ muhurta.lat = 66
    /\ getSunriseSunset(muhurta.currentDate, muhurta.lat, muhurta.lon) = NoTimes
    /\ muhurta.shown = "error"
    /\ muhurta.cards = <<>>
    /\ muhurta.ics.days = 7
    /\ Len(muhurta.ics.events) \in 1..6

\* C30: the muhurta screen shows the no-sunrise/sunset error exactly when
\* the hour-angle cosine of the corrected pass, for the day and location it
\* rendered, is outside [-1, 1]; the first pass decides nothing.
C30_ErrorIffCorrectedCosineOutOfRange ==
    muhurta.lat # Null =>
        ( muhurta.shown = "error"
            <=> OutOfRange(SunAt(muhurta.currentDate, muhurta.lat, muhurta.lon).cosH_new) )

=============================================================================
